---------------------------- MODULE Spec2Model ----------------------------
(***************************************************************************)
(* soroscope core: the RPC provider registry (circuit breaker, cool-down,  *)
(* health checker) of core/src/rpc_provider.rs; the simulation engine      *)
(* (validation, failover dispatch, metrics, local overrides) and the       *)
(* result cache of core/src/simulation.rs; the analyze handler of          *)
(* core/src/main.rs.                                                       *)
(*                                                                         *)
(* Time is the monotonic clock (Instant) in seconds.  Option<T> is a set   *)
(* with at most one element.  A message string is the sequence of its      *)
(* whitespace-separated words.                                             *)
(***************************************************************************)
EXTENDS Integers, Sequences, FiniteSets, TLC

VARIABLES
    states,       \* ProviderRegistry.states: Seq of ProviderState
    now,          \* Instant::now(), seconds
    failsSince,   \* history: failures seen by each provider since its last success
    lastFailAt,   \* history: instant of the last failure of each provider that has
                  \* seen 3 or more in a row since its last success (Option)
    lastCall,     \* history: the last call that updated the registry, with the
                  \* failures its provider had seen before it
    pc,           \* failover dispatch: "idle", "loop" or "done"
    providers,    \* failover dispatch: the list healthy_providers() returned
    it,           \* failover dispatch: position of the for loop in providers
    last_error,   \* failover dispatch: Option<SimulationError>
    result,       \* failover dispatch: the value returned (Option)
    contacted,    \* history: urls a request was sent to in this dispatch
    lastResp,     \* history: what the last request of this dispatch met (Option)
    request,      \* engine: the arguments of the running or last simulate call (Option)
    sim,          \* engine: what the last simulate call returned (Option)
    inner,        \* cache: the entries under the keys the model follows
    others,       \* cache: the number of entries under other keys
    hits,         \* cache: AtomicU64
    misses,       \* cache: AtomicU64
    lastOp,       \* history: the last cache call, with the counters before it
    lastSet,      \* history: the value and instant of the last set of each key
    hpc,          \* analyze handler: "idle", "simulating" or "responded"
    payload,      \* analyze handler: the request being served (Option)
    response,     \* analyze handler: the response sent (Option)
    arg,          \* the input of a pure function
    ret,          \* its output (Option)
    rules,        \* InsightsEngine.rules: Seq of rules
    pool,         \* liquidity pool contract: its storage
    poolCall,     \* history: the last call of the pool, its result, the storage before
    calls,        \* registry calls in flight, one per caller, each at its next step
    batch,        \* history: the registry calls begun since no call was in flight
    slots         \* analyze requests in flight, one per connection

registryVars == <<states, now, failsSince, lastFailAt, lastCall>>
dispatchVars == <<pc, providers, it, last_error, result, contacted, lastResp>>
engineVars == <<request, sim>>
cacheVars == <<inner, others, hits, misses, lastOp, lastSet>>
handlerVars == <<hpc, payload, response>>
pureVars == <<arg, ret>>
concVars == <<calls, batch, slots>>
libVars == <<rules, pool, poolCall, calls, batch, slots>>
\* what the registry and the failover loop do not touch
otherVars == <<request, sim, inner, others, hits, misses, lastOp, lastSet,
               hpc, payload, response, arg, ret, rules, pool, poolCall,
               calls, batch, slots>>
vars == <<states, now, failsSince, lastFailAt, lastCall,
          pc, providers, it, last_error, result, contacted, lastResp,
          request, sim, inner, others, hits, misses, lastOp, lastSet,
          hpc, payload, response, arg, ret, rules, pool, poolCall,
          calls, batch, slots>>

---------------------------------------------------------------------------
(* Bounds of the model *)

\* a provider's failure counter is not driven past this
MaxFailures == 4
\* the clock is not driven past MaxTicks steps
MaxTicks == 2
\* ledger sequence numbers a node answers with are 1..MaxLedger
MaxLedger == 1

---------------------------------------------------------------------------
(* Option<T> *)

None == {}
Some(x) == {x}
Unwrap(o) == CHOOSE x \in o : TRUE

Min(S) == CHOOSE x \in S : \A y \in S : x <= y

\* a map with no key
EmptyMap == [k \in {} |-> None]

\* before the first cache call
NoOp == [op |-> "new", key |-> None, returned |-> None, hits |-> 0, misses |-> 0, at |-> 0]

---------------------------------------------------------------------------
(* rpc_provider.rs *)

CIRCUIT_BREAKER_THRESHOLD == 3

CIRCUIT_BREAKER_COOLDOWN == 5 * 60

\* one step of the clock: half a cool-down
TickSecs == CIRCUIT_BREAKER_COOLDOWN \div 2

\* the prioritized provider list the registry is built from
Providers ==
    << [name |-> "primary",   url |-> "http://primary.test"],
       [name |-> "secondary", url |-> "http://secondary.test"],
       [name |-> "tertiary",  url |-> "http://tertiary.test"] >>

\* a url that matches no provider
UnknownUrl == "http://unknown.test"

Urls == {Providers[i].url : i \in 1..Len(Providers)} \cup {UnknownUrl}

Ledgers == 1..MaxLedger

\* ProviderRegistry::new
new(ps) ==
    [i \in 1..Len(ps) |->
        [provider             |-> ps[i],
         consecutive_failures |-> 0,
         tripped_at           |-> None,
         latest_ledger        |-> 0]]

\* find_by_url that falls back on the first provider
find_by_url_or_first(sts, url) ==
    LET found == {i \in 1..Len(sts) : sts[i].provider.url = url}
    IN  IF found = {} THEN Some(1) ELSE Some(Min(found))

\* self.states.iter().find(|s| s.provider.url == url): the first match
find_by_url(sts, url) ==
    LET found == {i \in 1..Len(sts) : sts[i].provider.url = url}
    IN  IF found = {} THEN None ELSE Some(Min(found))

\* when.elapsed() >= CIRCUIT_BREAKER_COOLDOWN, strict variant
is_available_strict(state, t) ==
    IF state.tripped_at = None
    THEN TRUE
    ELSE t - Unwrap(state.tripped_at) > CIRCUIT_BREAKER_COOLDOWN

is_available(state, t) ==
    IF state.tripped_at = None
    THEN TRUE
    ELSE t - Unwrap(state.tripped_at) >= CIRCUIT_BREAKER_COOLDOWN

RECURSIVE healthy_loop(_, _, _, _)
healthy_loop(sts, t, i, available) ==
    IF i > Len(sts)
    THEN available
    ELSE healthy_loop(sts, t, i + 1,
            IF is_available(sts[i], t)
            THEN Append(available, sts[i].provider)
            ELSE available)

RECURSIVE healthy_loop_front(_, _, _, _)
healthy_loop_front(sts, t, i, available) ==
    IF i > Len(sts)
    THEN available
    ELSE healthy_loop_front(sts, t, i + 1,
            IF is_available(sts[i], t)
            THEN <<sts[i].provider>> \o available
            ELSE available)

\* healthy_providers with each available provider put at the front
healthy_providers_front(sts, t) == healthy_loop_front(sts, t, 1, <<>>)

healthy_providers(sts, t) == healthy_loop(sts, t, 1, <<>>)

\* report_success that leaves tripped_at as it is
report_success_keeps_trip(sts, url) ==
    LET found == find_by_url(sts, url)
    IN  IF found = None
        THEN sts
        ELSE [sts EXCEPT ![Unwrap(found)].consecutive_failures = 0]

report_success(sts, url) ==
    LET found == find_by_url(sts, url)
    IN  IF found = None
        THEN sts
        ELSE [sts EXCEPT ![Unwrap(found)].consecutive_failures = 0,
                         ![Unwrap(found)].tripped_at = None]

\* report_failure that trips one failure late (prev + 1 > threshold)
report_failure_late(sts, url, t) ==
    LET found == find_by_url(sts, url)
    IN  IF found = None
        THEN sts
        ELSE LET i    == Unwrap(found)
                 prev == sts[i].consecutive_failures
             IN  IF prev + 1 > CIRCUIT_BREAKER_THRESHOLD
                 THEN [sts EXCEPT ![i].consecutive_failures = prev + 1,
                                  ![i].tripped_at = Some(t)]
                 ELSE [sts EXCEPT ![i].consecutive_failures = prev + 1]

\* report_failure called once before the retry decision and once after it
report_failure_twice(sts, url, t) ==
    LET found == find_by_url(sts, url)
    IN  IF found = None
        THEN sts
        ELSE LET i == Unwrap(found)
                 n == sts[i].consecutive_failures + 2
             IN  [sts EXCEPT ![i].consecutive_failures = n,
                             ![i].tripped_at =
                                 IF n >= CIRCUIT_BREAKER_THRESHOLD
                                 THEN Some(t)
                                 ELSE sts[i].tripped_at]

\* report_failure that counts nothing
report_failure_ignored(sts, url, t) == sts

\* report_failure that keeps the instant of the first trip
report_failure_keeps_first(sts, url, t) ==
    LET found == find_by_url(sts, url)
    IN  IF found = None
        THEN sts
        ELSE LET i    == Unwrap(found)
                 prev == sts[i].consecutive_failures
             IN  IF prev + 1 >= CIRCUIT_BREAKER_THRESHOLD /\ sts[i].tripped_at = None
                 THEN [sts EXCEPT ![i].consecutive_failures = prev + 1,
                                  ![i].tripped_at = Some(t)]
                 ELSE [sts EXCEPT ![i].consecutive_failures = prev + 1]

report_failure(sts, url, t) ==
    LET found == find_by_url(sts, url)
    IN  IF found = None
        THEN sts
        ELSE LET i    == Unwrap(found)
                 prev == sts[i].consecutive_failures
             IN  IF prev + 1 >= CIRCUIT_BREAKER_THRESHOLD
                 THEN [sts EXCEPT ![i].consecutive_failures = prev + 1,
                                  ![i].tripped_at = Some(t)]
                 ELSE [sts EXCEPT ![i].consecutive_failures = prev + 1]

is_retryable_status(status) == status = 429 \/ status >= 500

(* The health checker.  A probe meets the 10 s timeout, a body without     *)
(* result.sequence, or a body with result.sequence = ledger; a send error, *)
(* a non-2xx status and a body that is not JSON end as the timeout does,   *)
(* in Err(text).                                                           *)
ProbeResponses ==
    {[t |-> k, ledger |-> 0] :
        k \in {"timeout", "missing_sequence"}}
    \cup {[t |-> "sequence", ledger |-> l] : l \in Ledgers}

\* Result<u64, String>; the text of the error is only logged
probe_provider(resp) ==
    IF resp.t = "sequence"
    THEN [ok |-> TRUE, ledger |-> resp.ledger]
    ELSE [ok |-> FALSE, ledger |-> 0]

\* a round that resets the counter of a probed provider and leaves it tripped
health_check_one_keeps_trip(sts, i, resp, t) ==
    LET r == probe_provider(resp)
    IN  IF r.ok
        THEN [sts EXCEPT ![i].latest_ledger = r.ledger,
                         ![i].consecutive_failures = 0]
        ELSE LET prev == sts[i].consecutive_failures
             IN  IF prev + 1 >= CIRCUIT_BREAKER_THRESHOLD
                 THEN [sts EXCEPT ![i].consecutive_failures = prev + 1,
                                  ![i].tripped_at = Some(t)]
                 ELSE [sts EXCEPT ![i].consecutive_failures = prev + 1]

\* the body of the for loop of run_health_checks, for the provider at i
health_check_one(sts, i, resp, t) ==
    LET r == probe_provider(resp)
    IN  IF r.ok
        THEN [sts EXCEPT ![i].latest_ledger = r.ledger,
                         ![i].consecutive_failures = 0,
                         ![i].tripped_at = None]
        ELSE LET prev == sts[i].consecutive_failures
             IN  IF prev + 1 >= CIRCUIT_BREAKER_THRESHOLD
                 THEN [sts EXCEPT ![i].consecutive_failures = prev + 1,
                                  ![i].tripped_at = Some(t)]
                 ELSE [sts EXCEPT ![i].consecutive_failures = prev + 1]

RECURSIVE health_loop(_, _, _, _)
health_loop(sts, resps, i, t) ==
    IF i > Len(sts)
    THEN sts
    ELSE health_loop(health_check_one(sts, i, resps[i], t), resps, i + 1, t)

run_health_checks(sts, resps, t) == health_loop(sts, resps, 1, t)

---------------------------------------------------------------------------
(* simulation.rs: one request to one endpoint *)

\* SimulationError; NetworkError wraps the reqwest error, which is not modelled
Err(kind, msg) == [kind |-> kind, msg |-> msg]

NodeTimeout == Err("NodeTimeout", <<>>)

NetworkError == Err("NetworkError", <<>>)

RpcRequestFailed(msg) == Err("RpcRequestFailed", msg)

NodeError(msg) == Err("NodeError", msg)

\* the err field of an Ok result
NoError == Err("", <<>>)

\* Result<SimulationResult, SimulationError>
Ok(ledger) == [ok |-> TRUE, latest_ledger |-> ledger, err |-> NoError]

Failed(e) == [ok |-> FALSE, latest_ledger |-> 0, err |-> e]

\* non-2xx statuses a node answers with; 599 has no canonical reason
ErrStatuses == {400, 429, 503, 599}

\* JSON-RPC error codes a node answers with
RpcCodes == {-32600, -32601, -32602, -32603, -32000}

\* error.message of a JSON-RPC error
RpcMessage == <<"node", "says", "no">>

(* What a request can meet: the engine's timeout elapses; send() fails     *)
(* (is_timeout and is_connect are the reqwest error's flags); the node     *)
(* answers with a status and, under 200, a body that is not JSON, a        *)
(* JSON-RPC error or a result.                                             *)
Resp(t, is_timeout, is_connect, status, body, code, ledger) ==
    [t |-> t, is_timeout |-> is_timeout, is_connect |-> is_connect,
     status |-> status, body |-> body, code |-> code, ledger |-> ledger]

Responses ==
    {Resp("elapsed", FALSE, FALSE, 0, "", 0, 0)}
    \cup {Resp("send_error", f[1], f[2], 0, "", 0, 0) :
            f \in {<<TRUE, FALSE>>, <<FALSE, TRUE>>, <<FALSE, FALSE>>}}
    \cup {Resp("http", FALSE, FALSE, s, "", 0, 0) : s \in ErrStatuses}
    \cup {Resp("http", FALSE, FALSE, 200, "not_json", 0, 0)}
    \cup {Resp("http", FALSE, FALSE, 200, "error", c, 0) : c \in RpcCodes}
    \cup {Resp("http", FALSE, FALSE, 200, "result", 0, l) : l \in Ledgers}

\* StatusCode::is_success
is_success(status) == status >= 200 /\ status < 300

\* StatusCode::canonical_reason, as words
canonical_reason(status) ==
    CASE status = 200 -> Some(<<"OK">>)
      [] status = 400 -> Some(<<"Bad", "Request">>)
      [] status = 429 -> Some(<<"Too", "Many", "Requests">>)
      [] status = 503 -> Some(<<"Service", "Unavailable">>)
      [] OTHER        -> None

\* Display of StatusCode: the number, then the canonical reason
status_display(status) ==
    <<ToString(status)>> \o
        (IF canonical_reason(status) = None
         THEN <<"<unknown", "status", "code>">>
         ELSE Unwrap(canonical_reason(status)))

\* the match on error.code
rpc_error(code, message) ==
    CASE code = -32600 -> NodeError(<<"Invalid", "request", "format">>)
      [] code = -32601 -> RpcRequestFailed(<<"Method", "not", "found">>)
      [] code = -32602 -> NodeError(<<"Invalid", "parameters:">> \o message)
      [] code = -32603 -> RpcRequestFailed(<<"Internal", "error:">> \o message)
      [] OTHER         -> RpcRequestFailed(<<"RPC", "error", ToString(code) \o ":">> \o message)

simulate_transaction_single(resp) ==
    CASE resp.t = "elapsed" -> Failed(NodeTimeout)
      [] resp.t = "send_error" ->
            IF resp.is_timeout THEN Failed(NodeTimeout)
            ELSE IF resp.is_connect THEN Failed(NetworkError)
            ELSE Failed(RpcRequestFailed(<<"Network", "error:", "reqwest::Error">>))
      [] resp.t = "http" /\ ~is_success(resp.status) ->
            Failed(RpcRequestFailed(<<"HTTP", "error:">> \o status_display(resp.status)))
      [] resp.t = "http" /\ is_success(resp.status) /\ resp.body = "not_json" ->
            Failed(RpcRequestFailed(<<"Failed", "to", "parse", "response:", "serde::Error">>))
      [] resp.t = "http" /\ is_success(resp.status) /\ resp.body = "error" ->
            Failed(rpc_error(resp.code, RpcMessage))
      [] OTHER -> Ok(resp.ledger)

---------------------------------------------------------------------------
(* simulation.rs: the failover loop *)

\* numerals a message of the model can hold
Numerals == ErrStatuses \cup {200}

\* s.parse::<u16>().ok()
parse_u16(word) ==
    LET found == {n \in Numerals : ToString(n) = word}
    IN  IF found = {} THEN None ELSE Some(CHOOSE n \in found : TRUE)

\* msg.starts_with("HTTP error:")
starts_with_http_error(msg) ==
    Len(msg) >= 2 /\ msg[1] = "HTTP" /\ msg[2] = "error:"

\* msg.split_whitespace().last()
last_word(msg) == IF msg = <<>> THEN None ELSE Some(msg[Len(msg)])

\* should_retry with every error taken as retryable
should_retry_any(e) == TRUE

\* should_retry with NodeError taken as retryable too
should_retry_node_error(e) ==
    e.kind \in {"NodeTimeout", "NetworkError", "NodeError"}

should_retry(e) ==
    CASE e.kind \in {"NodeTimeout", "NetworkError"} -> TRUE
      [] e.kind = "RpcRequestFailed" /\ starts_with_http_error(e.msg) ->
            LET word   == last_word(e.msg)
                status == IF word = None THEN None ELSE parse_u16(Unwrap(word))
            IN  IF status = None THEN FALSE ELSE is_retryable_status(Unwrap(status))
      [] OTHER -> FALSE

AllUnavailable ==
    RpcRequestFailed(<<"All", "RPC", "providers", "are", "unavailable",
                       "(circuit", "breaker", "tripped)">>)

AllExhausted == RpcRequestFailed(<<"All", "providers", "exhausted">>)

\* last_error kept from the first failure on
keep_first_error(prev, e) == IF prev = None THEN Some(e) ELSE prev

\* last_error = Some(e)
next_last_error(prev, e) == Some(e)

\* an empty list goes into the loop instead of returning
none_available_never(ps) == FALSE

\* providers.is_empty()
none_available(ps) == ps = <<>>

---------------------------------------------------------------------------
(* History kept beside the registry *)

ProviderIdx == DOMAIN states

\* the providers a url names (urls are distinct: at most one)
Named(url) == {i \in ProviderIdx : states[i].provider.url = url}

\* failures the provider url names had seen when a call was made
Before(url) ==
    IF Named(url) = {} THEN 0 ELSE failsSince[CHOOSE i \in Named(url) : TRUE]

\* tripped_at of the provider url names, when a call is made
Was(url) ==
    IF Named(url) = {} THEN None ELSE states[CHOOSE i \in Named(url) : TRUE].tripped_at

Call(op, url, before) == [op |-> op, url |-> url, before |-> before, was |-> Was(url)]

\* a round of the health checker: what each probe met, the registry before it
Round(resps, sts, t) ==
    [op |-> "run_health_checks", url |-> "", before |-> 0,
     probes |-> resps, registry |-> sts, at |-> t]

Healthy == healthy_providers(states, now)

InHealthy(i) == \E k \in 1..Len(Healthy) : Healthy[k] = states[i].provider

HistSuccess(url) ==
    /\ failsSince' = [i \in ProviderIdx |-> IF i \in Named(url) THEN 0 ELSE failsSince[i]]
    /\ lastFailAt' = [i \in ProviderIdx |-> IF i \in Named(url) THEN None ELSE lastFailAt[i]]
    /\ lastCall' = Call("report_success", url, Before(url))

HistFailure(url) ==
    /\ failsSince' = [i \in ProviderIdx |->
                        IF i \in Named(url) THEN failsSince[i] + 1 ELSE failsSince[i]]
    /\ lastFailAt' = [i \in ProviderIdx |->
                        IF i \in Named(url) /\ failsSince[i] + 1 >= 3
                        THEN Some(now)
                        ELSE lastFailAt[i]]
    /\ lastCall' = Call("report_failure", url, Before(url))

---------------------------------------------------------------------------
(* Registry operations, as a caller outside a dispatch makes them *)

DispatchIdle ==
    /\ pc = "idle"
    /\ UNCHANGED dispatchVars
    /\ UNCHANGED otherVars

ReportSuccess(url) ==
    /\ states' = report_success(states, url)
    /\ HistSuccess(url)
    /\ UNCHANGED now
    /\ DispatchIdle

ReportFailure(url) ==
    /\ \A i \in Named(url) : states[i].consecutive_failures < MaxFailures
    /\ states' = report_failure(states, url, now)
    /\ HistFailure(url)
    /\ UNCHANGED now
    /\ DispatchIdle

\* one round of the background health checker
RunHealthChecks(resps) ==
    /\ \A i \in ProviderIdx :
          ~probe_provider(resps[i]).ok => states[i].consecutive_failures < MaxFailures
    /\ states' = run_health_checks(states, resps, now)
    /\ failsSince' = [i \in ProviderIdx |->
                        IF probe_provider(resps[i]).ok THEN 0 ELSE failsSince[i] + 1]
    /\ lastFailAt' = [i \in ProviderIdx |->
                        IF probe_provider(resps[i]).ok THEN None
                        ELSE IF failsSince[i] + 1 >= 3 THEN Some(now)
                        ELSE lastFailAt[i]]
    /\ lastCall' = Round(resps, states, now)
    /\ UNCHANGED now
    /\ DispatchIdle

\* time passes; nothing runs
Tick ==
    /\ now + TickSecs <= MaxTicks * TickSecs
    /\ now' = now + TickSecs
    /\ UNCHANGED <<states, failsSince, lastFailAt, lastCall>>
    /\ UNCHANGED dispatchVars
    /\ UNCHANGED otherVars

---------------------------------------------------------------------------
(* simulate_transaction_with_failover, one step per await of a request *)

\* let providers = registry.healthy_providers().await; the empty case
SimulateStart ==
    /\ pc = "idle"
    /\ providers' = healthy_providers(states, now)
    /\ IF none_available(providers')
       THEN /\ pc' = "done"
            /\ result' = Some(Failed(AllUnavailable))
            /\ it' = 0
       ELSE /\ pc' = "loop"
            /\ result' = None
            /\ it' = 1
    /\ last_error' = None
    /\ contacted' = <<>>
    /\ lastResp' = None
    /\ UNCHANGED registryVars
    /\ UNCHANGED otherVars

\* one turn of the for loop: the request to providers[it] meets resp
Attempt(resp) ==
    /\ pc = "loop"
    /\ it <= Len(providers)
    /\ LET provider == providers[it]
           r        == simulate_transaction_single(resp)
       IN  /\ contacted' = Append(contacted, provider.url)
           /\ lastResp' = Some(resp)
           /\ IF r.ok
              THEN /\ states' = report_success(states, provider.url)
                   /\ HistSuccess(provider.url)
                   /\ result' = Some(r)
                   /\ pc' = "done"
                   /\ UNCHANGED <<it, last_error>>
              ELSE /\ \A i \in Named(provider.url) :
                         states[i].consecutive_failures < MaxFailures
                   /\ states' = report_failure(states, provider.url, now)
                   /\ HistFailure(provider.url)
                   /\ IF should_retry(r.err)
                      THEN /\ last_error' = next_last_error(last_error, r.err)
                           /\ it' = it + 1
                           /\ IF it' <= Len(providers)
                              THEN /\ pc' = "loop"
                                   /\ result' = None
                              ELSE /\ pc' = "done"
                                   /\ result' = Some(Failed(
                                         IF last_error' = None
                                         THEN AllExhausted
                                         ELSE Unwrap(last_error')))
                      ELSE /\ result' = Some(r)
                           /\ pc' = "done"
                           /\ UNCHANGED <<it, last_error>>
    /\ UNCHANGED <<now, providers>>
    /\ UNCHANGED otherVars

\* the caller takes the result; the engine is ready for the next request
Finish ==
    /\ pc = "done"
    /\ pc' = "idle"
    /\ providers' = <<>>
    /\ it' = 0
    /\ last_error' = None
    /\ result' = None
    /\ contacted' = <<>>
    /\ lastResp' = None
    /\ UNCHANGED registryVars
    /\ UNCHANGED otherVars

---------------------------------------------------------------------------
(* simulation.rs: simulate_from_contract_id.  A string is the sequence of  *)
(* its characters; a base64 text is named by one model value.              *)

\* StringM<32>, the limit of ScSymbol
SCSYMBOL_LIMIT == 32

\* a name one character too long for a symbol
LongName == [i \in 1..(SCSYMBOL_LIMIT + 1) |-> "x"]

\* the strkeys of the model that decode, all of them contract addresses
ContractStrkeys == {<<"C", "A">>, <<"C", "B">>}

\* Strkey::from_string
strkey_from_string(text) ==
    IF text \in ContractStrkeys THEN Some("Contract") ELSE None

starts_with(text, c) == text # <<>> /\ text[1] = c

Digits == {"0", "1", "7"}

\* arg.parse::<i64>().is_ok() || arg.parse::<u64>().is_ok(), on unsigned numerals
parses_as_integer(text) == text # <<>> /\ \A i \in 1..Len(text) : text[i] \in Digits

\* ParserError and what the engine makes of it (From<ParserError>)
ParseError == Err("ParseError", <<"Invalid", "JSON", "type", "at", "$">>)

Parsed(val) == [ok |-> TRUE, val |-> val, err |-> NoError]

Unparsed(e) == [ok |-> FALSE, val |-> "", err |-> e]

\* ArgParser::parse on the texts of the model: a numeral, an empty array,
\* a quoted string; anything else is not JSON
ArgParser_parse(text) ==
    CASE parses_as_integer(text) -> Parsed("I64")
      [] text = <<"[", "]">> -> Parsed("Vec")
      [] Len(text) >= 2 /\ text[1] = "\"" /\ text[Len(text)] = "\"" ->
            IF Len(text) >= 3 /\ text[2] = ":"
            THEN Parsed("Symbol")
            ELSE Parsed("String")
      [] OTHER -> Unparsed(ParseError)

\* format!("\"{}\"", arg)
quoted(text) == <<"\"">> \o text \o <<"\"">>

parse_sc_val_arg(text) ==
    CASE starts_with(text, "{") \/ starts_with(text, "[") -> ArgParser_parse(text)
      [] text \in {<<"t", "r", "u", "e">>, <<"f", "a", "l", "s", "e">>} -> Parsed("Bool")
      [] text \in {<<"v", "o", "i", "d">>, <<"(", ")">>} -> Parsed("Void")
      [] /\ starts_with(text, "G") \/ starts_with(text, "C") \/ starts_with(text, ":")
            \/ (Len(text) >= 2 /\ text[1] = "0" /\ text[2] = "x")
         /\ ArgParser_parse(quoted(text)).ok -> ArgParser_parse(quoted(text))
      [] /\ starts_with(text, "\"") \/ parses_as_integer(text)
         /\ ArgParser_parse(text).ok -> ArgParser_parse(text)
      [] OTHER ->
            IF Len(text) <= SCSYMBOL_LIMIT
            THEN Parsed("Symbol")
            ELSE Unparsed(NodeError(<<"Cannot", "parse", "argument:", "x...">>))

\* parse_contract_id with the prefix test dropped
parse_contract_id_any_prefix(contract_id) ==
    Parsed("Hash")

parse_contract_id(contract_id) ==
    IF ~starts_with(contract_id, "C")
    THEN Unparsed(NodeError(<<"Contract", "ID", "must", "start", "with", "'C'">>))
    ELSE IF strkey_from_string(contract_id) = None
    THEN Unparsed(NodeError(<<"Invalid", "contract", "ID", "format:", "strkey::Error">>))
    ELSE IF strkey_from_string(contract_id) = Some("Contract")
    THEN Parsed("Hash")
    ELSE Unparsed(NodeError(<<"Expected", "contract", "address">>))

\* the first argument that does not parse, if any (collect::<Result<Vec<_>, _>>)
first_bad_arg(args) ==
    LET bad == {i \in 1..Len(args) : ~parse_sc_val_arg(args[i]).ok}
    IN  IF bad = {} THEN None ELSE Some(parse_sc_val_arg(args[Min(bad)]).err)

\* padding of XDR opaque data to a multiple of four bytes
pad4(n) == ((n + 3) \div 4) * 4

\* bytes of an ScVal in XDR: the discriminant, then the body
scval_xdr_len(text) ==
    LET val == parse_sc_val_arg(text).val
    IN  CASE val \in {"I64"} -> 4 + 8
          [] val = "Bool" -> 4 + 4
          [] val = "Void" -> 4
          [] val = "Vec" -> 4 + 4 + 4
          [] OTHER -> 4 + 4 + pad4(Len(text))

RECURSIVE args_xdr_len(_)
args_xdr_len(args) ==
    IF args = <<>> THEN 0 ELSE scval_xdr_len(Head(args)) + args_xdr_len(Tail(args))

\* envelope.to_xdr(): the bytes of the TransactionV1Envelope
\* Transaction: source account 4+32, fee 4, seq_num 8, cond 4, memo 4,
\* operations 4+op, ext 4; op: source_account 4, body 4, host function 4,
\* contract address 4+32, function name 4+padded, args 4+each, auth 4;
\* signatures 4
envelope_xdr_len(function_name, args) ==
    (36 + 4 + 8 + 4 + 4 + 4 + 4)
    + (4 + 4 + 4 + 36 + 4 + pad4(Len(function_name)) + 4 + args_xdr_len(args) + 4)
    + 4

Built(len) == [ok |-> TRUE, xdr_len |-> len, err |-> NoError]

NotBuilt(e) == [ok |-> FALSE, xdr_len |-> 0, err |-> e]

\* create_invoke_transaction: Ok(the envelope, by its length in bytes) or Err
create_invoke_transaction(contract_id, function_name, args) ==
    IF ~parse_contract_id(contract_id).ok
    THEN NotBuilt(parse_contract_id(contract_id).err)
    ELSE IF Len(function_name) > SCSYMBOL_LIMIT
    THEN NotBuilt(NodeError(<<"Invalid", "function", "name">>))
    ELSE IF first_bad_arg(args) # None
    THEN NotBuilt(Unwrap(first_bad_arg(args)))
    ELSE Built(envelope_xdr_len(function_name, args))

\* base64 texts that decode to a LedgerKey / a LedgerEntry
LedgerKeys == {"K1", "K2", "K3"}

LedgerEntries == {"V1"}

\* a text that is not base64
NotBase64 == "!!"

Base64Error == Err("Base64Error", <<"Invalid", "symbol">>)

XdrError(msg) == Err("XdrError", msg)

\* what decoding one override can fail with (Option)
override_error(key_64, val_64) ==
    CASE key_64 = NotBase64 -> Some(Base64Error)
      [] key_64 \notin LedgerKeys -> Some(XdrError(<<"Invalid", "ledger", "key:", "xdr::Error">>))
      [] val_64 = NotBase64 -> Some(Base64Error)
      [] val_64 \notin LedgerEntries ->
            Some(XdrError(<<"Invalid", "ledger", "entry:", "xdr::Error">>))
      [] OTHER -> None

\* the errors the decoding loop can return: the map is walked in no fixed
\* order, so any override that does not decode can be the first one met
override_errors(overrides) ==
    UNION {override_error(k, overrides[k]) : k \in DOMAIN overrides}

\* StateDependency, DataSource
StateDependency(key, source) == [key |-> key, source |-> source]

\* state_dependency after the decoding loop (a Vec in the map's order, kept as a set)
injected_dependencies(overrides) ==
    {StateDependency(k, "Injected") : k \in DOMAIN overrides}

\* AnalyzeRequest / the arguments of simulate_from_contract_id
Request(contract_id, function_name, args, ledger_overrides) ==
    [contract_id |-> contract_id, function_name |-> function_name,
     args |-> args, ledger_overrides |-> ledger_overrides]

\* if let Some(overrides) = ledger_overrides { if !overrides.is_empty() {
takes_local_path(req) ==
    req.ledger_overrides # None /\ DOMAIN Unwrap(req.ledger_overrides) # {}

\* Err values simulate_from_contract_id can return before simulate_transaction
\* is called; empty when the call goes on to the RPC
early_errors(req) ==
    LET tx == create_invoke_transaction(req.contract_id, req.function_name, req.args)
    IN  IF req.contract_id = <<>>
        THEN {NodeError(<<"Contract", "ID", "cannot", "be", "empty">>)}
        ELSE IF takes_local_path(req)
                 /\ override_errors(Unwrap(req.ledger_overrides)) # {}
        THEN override_errors(Unwrap(req.ledger_overrides))
        ELSE IF tx.ok THEN {} ELSE {tx.err}

\* Result<SimulationResult, SimulationError> as simulate_from_contract_id returns it
Returned(r, deps) ==
    [ok |-> r.ok, latest_ledger |-> r.latest_ledger, err |-> r.err,
     state_dependency |-> deps]

\* result.state_dependency = Some(final_deps) on the local path; None otherwise
returned_value(req, r) ==
    IF r.ok /\ takes_local_path(req)
    THEN Returned(r, Some(injected_dependencies(Unwrap(req.ledger_overrides))))
    ELSE Returned(r, None)

\* requests of the model
ContractIdTexts == {<<>>, <<"G", "A">>, <<"C", "?">>, <<"C", "A">>}

FunctionNames == {<<"f">>, LongName}

ArgLists == {<<>>, << <<"7">>, <<"[">> >>}

OverrideMaps ==
    {None, Some(EmptyMap), Some([k \in {"K1"} |-> "V1"]), Some([k \in {NotBase64} |-> "V1"])}

\* a well-formed request without overrides, and one with an override
Plain == Request(<<"C", "A">>, <<"f">>, <<>>, None)

PlainLocal == Request(<<"C", "A">>, <<"f">>, <<>>, Some([k \in {"K1"} |-> "V1"]))

\* the requests that differ from base in at most one field
Variations(base) ==
    {[base EXCEPT !.contract_id = c] : c \in ContractIdTexts}
    \cup {[base EXCEPT !.function_name = f] : f \in FunctionNames}
    \cup {[base EXCEPT !.args = a] : a \in ArgLists}
    \cup {[base EXCEPT !.ledger_overrides = o] : o \in OverrideMaps}

Requests == Variations(Plain) \cup Variations(PlainLocal)

\* simulate_from_contract_id up to the first await of a request: validation,
\* the decoding of the overrides, the envelope, the list of healthy providers
Simulate(req) ==
    /\ pc = "idle"
    /\ request' = Some(req)
    /\ IF early_errors(req) # {}
       THEN /\ \E e \in early_errors(req) : sim' = Some(Returned(Failed(e), None))
            /\ UNCHANGED dispatchVars
       ELSE /\ sim' = None
            /\ providers' = healthy_providers(states, now)
            /\ IF none_available(providers')
               THEN /\ pc' = "done"
                    /\ result' = Some(Failed(AllUnavailable))
                    /\ it' = 0
               ELSE /\ pc' = "loop"
                    /\ result' = None
                    /\ it' = 1
            /\ last_error' = None
            /\ contacted' = <<>>
            /\ lastResp' = None
    /\ UNCHANGED registryVars
    /\ UNCHANGED <<cacheVars, pureVars, libVars>>

\* a caller outside the analyze handler
SimulateFromContractId(req) ==
    /\ hpc = "idle"
    /\ Simulate(req)
    /\ UNCHANGED handlerVars

\* the dispatch has ended: simulate_from_contract_id returns
Return ==
    /\ pc = "done"
    /\ request # None
    /\ sim' = Some(returned_value(Unwrap(request), Unwrap(result)))
    /\ pc' = "idle"
    /\ providers' = <<>>
    /\ it' = 0
    /\ last_error' = None
    /\ result' = None
    /\ contacted' = <<>>
    /\ lastResp' = None
    /\ UNCHANGED registryVars
    /\ UNCHANGED <<request, cacheVars, handlerVars, pureVars, libVars>>

---------------------------------------------------------------------------
(* simulation.rs: SimulationCache::generate_key *)

\* the longest contract id and function name hashed in the model
MaxKeyLen == 2

KeyChars == {"a", "b", "c"}

\* strings of KeyChars up to MaxKeyLen characters
KeyTexts == UNION {[1..n -> KeyChars] : n \in 0..MaxKeyLen}

KeyArgs == {<<>>, << <<"a">> >>, << <<"a">>, <<"b">> >>, << <<"\"">> >>}

KeyInput(contract_id, function_name, args) ==
    [contract_id |-> contract_id, function_name |-> function_name, args |-> args]

KeyInputs == {KeyInput(c, f, a) : c \in KeyTexts, f \in KeyTexts, a \in KeyArgs}

\* serde_json's escaping inside a string: the quote and the backslash
RECURSIVE json_escape(_)
json_escape(text) ==
    IF text = <<>>
    THEN <<>>
    ELSE (IF Head(text) \in {"\"", "\\"} THEN <<"\\", Head(text)>> ELSE <<Head(text)>>)
         \o json_escape(Tail(text))

RECURSIVE json_items(_)
json_items(args) ==
    IF args = <<>>
    THEN <<>>
    ELSE quoted(json_escape(Head(args)))
         \o (IF Tail(args) = <<>> THEN <<>> ELSE <<",">>)
         \o json_items(Tail(args))

\* serde_json::to_string(args)
to_json(args) == <<"[">> \o json_items(args) \o <<"]">>

\* format!("{}{}{}", contract_id, function_name, args_json)
pre_image(contract_id, function_name, args) ==
    contract_id \o function_name \o to_json(args)

\* hex::encode(Sha256::digest(input)): one digest per input, no collision
sha256_hex(input) == [sha256 |-> input]

generate_key(contract_id, function_name, args) ==
    sha256_hex(pre_image(contract_id, function_name, args))

\* the fingerprint of a key input
key_of(x) == generate_key(x.contract_id, x.function_name, x.args)

\* generate_key is applied to the input
Hash ==
    /\ arg \in {Some(x) : x \in KeyInputs}
    /\ ret = None
    /\ ret' = Some(key_of(Unwrap(arg)))
    /\ UNCHANGED <<arg, libVars>>
    /\ UNCHANGED <<registryVars, dispatchVars, engineVars, cacheVars, handlerVars>>

---------------------------------------------------------------------------
(* simulation.rs: the metrics of a successful simulateTransaction result;  *)
(* network_config.rs: the fee schedule                                     *)

\* numerals a node's cost strings can hold in the model
CostNumerals == {0, 2048, 25000}

\* s.parse::<u64>()
parse_u64(text) ==
    LET found == {n \in CostNumerals : ToString(n) = text}
    IN  IF found = {} THEN None ELSE Some(CHOOSE n \in found : TRUE)

\* ResourceCost
ResourceCost(cpu_insns, mem_bytes) == [cpu_insns |-> cpu_insns, mem_bytes |-> mem_bytes]

\* transactionData of the response: a base64 text, given by its length in
\* characters, whether it decodes to SorobanTransactionData, and the
\* footprint it then holds
TxData(len, decodes, read_only, read_write) ==
    [len |-> len, decodes |-> decodes, read_only |-> read_only, read_write |-> read_write]

TxDatas ==
    {TxData(0, FALSE, <<>>, <<>>)}
    \cup {TxData(n, FALSE, <<>>, <<>>) : n \in {132, 2048}}
    \cup {TxData(n, TRUE, ro, rw) : n \in {132, 2048},
                                    ro \in {<<>>, <<"K1">>, <<"K1", "K2">>},
                                    rw \in {<<>>, <<"K3">>}}

\* SimulationRpcResult
RpcResult(transaction_data, latest_ledger, cost) ==
    [transaction_data |-> transaction_data, latest_ledger |-> latest_ledger, cost |-> cost]

RpcResults ==
    {RpcResult(d, l, c) :
        d \in TxDatas, l \in Ledgers,
        c \in {None, Some(ResourceCost(ToString(25000), ToString(2048))),
               Some(ResourceCost("n/a", ToString(0)))}}

\* the keys of the model: K1 is a ContractCode key, K2 an Account key, K3 a Ttl key
ledger_key_size(key) ==
    CASE key = "K1" -> 32
      [] key = "K2" -> 56
      [] OTHER -> 32

RECURSIVE calculate_ledger_keys_size(_)
calculate_ledger_keys_size(ledger_keys) ==
    IF ledger_keys = <<>>
    THEN 0
    ELSE ledger_key_size(Head(ledger_keys)) + calculate_ledger_keys_size(Tail(ledger_keys))

\* (read_bytes, write_bytes)
extract_footprint_from_xdr(transaction_data) ==
    IF transaction_data.len = 0 \/ ~transaction_data.decodes
    THEN <<0, 0>>
    ELSE <<calculate_ledger_keys_size(transaction_data.read_only),
           calculate_ledger_keys_size(transaction_data.read_write)>>

SorobanResources(cpu, ram, read, write, size) ==
    [cpu_instructions |-> cpu, ram_bytes |-> ram, ledger_read_bytes |-> read,
     ledger_write_bytes |-> write, transaction_size_bytes |-> size]

\* SimulationEngine::calculate_cost
calculate_cost(resources) ==
    LET cpu_cost    == resources.cpu_instructions \div 10000
        ram_cost    == resources.ram_bytes \div 1024
        ledger_cost == (resources.ledger_read_bytes + resources.ledger_write_bytes) \div 1024
    IN  cpu_cost + ram_cost + ledger_cost

\* NetworkConfig
NetworkConfig(name, version, rates, limits) ==
    [name |-> name, protocol_version |-> version,
     cpu_insns_per_fee_unit |-> rates[1], mem_bytes_per_fee_unit |-> rates[2],
     ledger_bytes_per_fee_unit |-> rates[3], tx_size_bytes_per_fee_unit |-> rates[4],
     tx_max_instructions |-> limits[1], tx_max_memory_bytes |-> limits[2],
     tx_max_read_bytes |-> limits[3], tx_max_write_bytes |-> limits[4],
     tx_max_size_bytes |-> limits[5]]

protocol_21 ==
    NetworkConfig("Protocol 21 (Current Testnet)", 21, <<10000, 1024, 1024, 1024>>,
                  <<100000000, 40 * 1024 * 1024, 200 * 1024, 65536, 71680>>)

protocol_22 ==
    NetworkConfig("Protocol 22 (Upcoming/Next)", 22, <<12500, 1024, 768, 1024>>,
                  <<200000000, 64 * 1024 * 1024, 200 * 1024, 131072, 71680>>)

custom_private ==
    NetworkConfig("Custom Private Network", 21, <<10000, 1024, 1024, 1024>>,
                  <<500000000, 128 * 1024 * 1024, 1024 * 1024, 512 * 1024, 256 * 1024>>)

\* NetworkConfig::calculate_cost
config_calculate_cost(config, resources) ==
    LET cpu_fee    == resources.cpu_instructions \div config.cpu_insns_per_fee_unit
        mem_fee    == resources.ram_bytes \div config.mem_bytes_per_fee_unit
        ledger_fee == (resources.ledger_read_bytes + resources.ledger_write_bytes)
                          \div config.ledger_bytes_per_fee_unit
        size_fee   == resources.transaction_size_bytes \div config.tx_size_bytes_per_fee_unit
    IN  cpu_fee + mem_fee + ledger_fee + size_fee

\* SimulationResult
SimulationResult(resources, latest_ledger, cost_stroops, state_dependency) ==
    [resources |-> resources, latest_ledger |-> latest_ledger,
     cost_stroops |-> cost_stroops, state_dependency |-> state_dependency]

parse_simulation_result(rpc_result) ==
    LET resources ==
            IF rpc_result.cost # None
            THEN LET cost == Unwrap(rpc_result.cost)
                     cpu  == parse_u64(cost.cpu_insns)
                     ram  == parse_u64(cost.mem_bytes)
                     fp   == extract_footprint_from_xdr(rpc_result.transaction_data)
                 IN  SorobanResources(IF cpu = None THEN 0 ELSE Unwrap(cpu),
                                      IF ram = None THEN 0 ELSE Unwrap(ram),
                                      fp[1], fp[2],
                                      rpc_result.transaction_data.len)
            ELSE SorobanResources(0, 0, 0, 0, 0)
    IN  SimulationResult(resources, rpc_result.latest_ledger,
                         calculate_cost(resources), None)

\* what simulate_from_contract_id returns for a request that passes
\* validation when the node answers with rpc_result
simulation_result(req, rpc_result) ==
    LET r == parse_simulation_result(rpc_result)
    IN  IF takes_local_path(req)
        THEN [r EXCEPT !.state_dependency =
                  Some(injected_dependencies(Unwrap(req.ledger_overrides)))]
        ELSE r

\* requests that pass validation
SimulatedRequests ==
    {Plain, PlainLocal,
     [Plain EXCEPT !.args = << <<"7">> >>],
     [Plain EXCEPT !.ledger_overrides = Some([k \in {"K1", "K2"} |-> "V1"])]}

MetricsInput(req, rpc_result) == [req |-> req, rpc_result |-> rpc_result]

MetricsInputs == {MetricsInput(q, r) : q \in SimulatedRequests, r \in RpcResults}

\* the node's result is turned into the SimulationResult of the call
Measure ==
    /\ arg \in {Some(x) : x \in MetricsInputs}
    /\ ret = None
    /\ ret' = Some(simulation_result(Unwrap(arg).req, Unwrap(arg).rpc_result))
    /\ UNCHANGED <<arg, libVars>>
    /\ UNCHANGED <<registryVars, dispatchVars, engineVars, cacheVars, handlerVars>>

---------------------------------------------------------------------------
(* simulation.rs: SimulationCache.  The moka cache is taken by its         *)
(* contract: an entry is returned until time_to_live has passed since it   *)
(* was inserted; an insert into a full cache evicts some entry or is not   *)
(* admitted.                                                               *)

CACHE_TTL_SECS == 3600

CACHE_MAX_CAPACITY == 1000

\* the builder twice as patient
time_to_live_doubled == 2 * CACHE_TTL_SECS

\* .time_to_live(Duration::from_secs(CACHE_TTL_SECS))
time_to_live == CACHE_TTL_SECS

\* .max_capacity(CACHE_MAX_CAPACITY)
max_capacity == CACHE_MAX_CAPACITY

\* gets of one behaviour
MaxGets == 2

\* the cache clock is not driven past MaxCacheTicks steps of half a time_to_live
MaxCacheTicks == 3

CacheTickSecs == CACHE_TTL_SECS \div 2

Entry(value, at) == [value |-> value, at |-> at]

\* entries the cache holds, under followed and other keys
entry_count(map, n) == Cardinality(DOMAIN map) + n

Put(map, key, entry) ==
    [k \in DOMAIN map \cup {key} |-> IF k = key THEN entry ELSE map[k]]

Remove(map, key) == [k \in DOMAIN map \ {key} |-> map[k]]

Stored(map, n) == [inner |-> map, others |-> n]

\* self.inner.get(key).await at instant t
inner_get(map, key, t) ==
    IF key \in DOMAIN map /\ t - map[key].at < time_to_live
    THEN Some(map[key].value)
    ELSE None

\* an insert that keeps the entry a key already has
inner_insert_keep(map, n, key, value, t) ==
    IF key \in DOMAIN map
    THEN {Stored(map, n)}
    ELSE {Stored(Put(map, key, Entry(value, t)), n)}

\* self.inner.insert(key, value).await at instant t: what the cache can hold after it
inner_insert(map, n, key, value, t) ==
    IF key \in DOMAIN map \/ entry_count(map, n) < max_capacity
    THEN {Stored(Put(map, key, Entry(value, t)), n)}
    ELSE {Stored(map, n)}
         \cup (IF n > 0 THEN {Stored(Put(map, key, Entry(value, t)), n - 1)} ELSE {})
         \cup {Stored(Put(Remove(map, k), key, Entry(value, t)), n) : k \in DOMAIN map}

\* the same insert under a key the model does not follow
inner_insert_other(map, n) ==
    IF entry_count(map, n) < max_capacity
    THEN {Stored(map, n + 1)}
    ELSE {Stored(map, n)} \cup {Stored(Remove(map, k), n + 1) : k \in DOMAIN map}

\* get counting a hit as a miss too
get_counters_both(found, h, m) ==
    IF found # None THEN <<h + 1, m + 1>> ELSE <<h, m + 1>>

\* the counters after get: fetch_add on hits or on misses
get_counters(found, h, m) ==
    IF found # None THEN <<h + 1, m>> ELSE <<h, m + 1>>

CacheOp(op, key, returned) ==
    [op |-> op, key |-> key, returned |-> returned, hits |-> hits, misses |-> misses,
     at |-> now]

\* SimulationCache::get
CacheGet(key) ==
    /\ hits + misses < MaxGets
    /\ LET found == inner_get(inner, key, now)
       IN  /\ hits' = get_counters(found, hits, misses)[1]
           /\ misses' = get_counters(found, hits, misses)[2]
           /\ lastOp' = CacheOp("get", Some(key), found)
    /\ UNCHANGED <<inner, others, lastSet>>

\* SimulationCache::set
CacheSet(key, value) ==
    /\ \E after \in inner_insert(inner, others, key, value, now) :
          /\ inner' = after.inner
          /\ others' = after.others
    /\ lastSet' = Put(lastSet, key, Entry(value, now))
    /\ lastOp' = CacheOp("set", Some(key), Some(value))
    /\ UNCHANGED <<hits, misses>>

\* keys and values of the cache on its own
CacheKeys == {key_of(KeyInput(<<"a">>, <<"b">>, <<>>)), key_of(KeyInput(<<"b">>, <<"a">>, <<>>))}

CacheValues ==
    {Returned(Ok(1), None), Returned(Ok(1), Some(injected_dependencies([k \in {"K1"} |-> "V1"])))}

\* the cache is not followed while the other keys fill it
Followed == others = 0 \/ entry_count(inner, others) + 1 >= max_capacity

Untouched == lastOp = NoOp /\ now = 0

Get(key) ==
    /\ Followed
    /\ CacheGet(key)
    /\ UNCHANGED <<registryVars, dispatchVars, engineVars, handlerVars, pureVars, libVars>>

Set(key, value) ==
    /\ Followed
    /\ CacheSet(key, value)
    /\ UNCHANGED <<registryVars, dispatchVars, engineVars, handlerVars, pureVars, libVars>>

\* set under a key the model does not follow
SetOther ==
    /\ Untouched \/ entry_count(inner, others) + 1 >= max_capacity
    /\ \E after \in inner_insert_other(inner, others) :
          /\ inner' = after.inner
          /\ others' = after.others
    /\ lastOp' = IF Untouched THEN lastOp ELSE CacheOp("set", None, None)
    /\ UNCHANGED <<hits, misses, lastSet>>
    /\ UNCHANGED <<registryVars, dispatchVars, engineVars, handlerVars, pureVars, libVars>>

\* time passes for the cache
CacheTick ==
    /\ Followed
    /\ now + CacheTickSecs <= MaxCacheTicks * CacheTickSecs
    /\ now' = now + CacheTickSecs
    /\ UNCHANGED <<states, failsSince, lastFailAt, lastCall>>
    /\ UNCHANGED <<dispatchVars, engineVars, cacheVars, handlerVars, pureVars, libVars>>

---------------------------------------------------------------------------
(* main.rs: the analyze handler *)

\* StateDependencyReport: the key, and the Debug text of the source
StateDependencyReport(d) == [key |-> d.key, source |-> d.source]

\* to_report; the resources are copied field by field and are not followed here
to_report(r) ==
    [state_dependency |->
        IF r.state_dependency = None
        THEN None
        ELSE Some({StateDependencyReport(d) : d \in Unwrap(r.state_dependency)})]

NoReport == [state_dependency |-> None]

\* what the client gets: the status, the x-soroscope-cache header, the body
Response(status, cache, body) == [status |-> status, cache |-> cache, body |-> body]

\* Ok((headers, Json(to_report(&result))))
Answer(cache_status, r) == Response(200, Some(cache_status), to_report(r))

\* AppError::Internal("Simulation failed: ...")
Internal == Response(500, None, NoReport)

\* requests the handler is sent
Payloads == {Plain, PlainLocal, [Plain EXCEPT !.contract_id = <<"G", "A">>]}

\* the handler up to the end of cache.get
Analyze(p) ==
    /\ hpc \in {"idle", "responded", "cancelled"}
    /\ pc = "idle"
    /\ payload' = Some(p)
    /\ CacheGet(key_of(p))
    /\ LET found == inner_get(inner, key_of(p), now)
       IN  IF found # None
           THEN /\ response' = Some(Answer("HIT", Unwrap(found)))
                /\ hpc' = "responded"
           ELSE /\ response' = None
                /\ hpc' = "miss"
    /\ request' = None
    /\ sim' = None
    /\ UNCHANGED <<registryVars, dispatchVars, pureVars, libVars>>

\* state.engine.simulate_from_contract_id(...) is called
AnalyzeSimulate ==
    /\ hpc = "miss"
    /\ Simulate(Unwrap(payload))
    /\ hpc' = "simulating"
    /\ UNCHANGED <<payload, response>>

\* the handler answers MISS without cache.set
AnalyzeFinishNoStore ==
    /\ hpc = "simulating"
    /\ pc = "idle"
    /\ sim # None
    /\ response' = Some(IF Unwrap(sim).ok THEN Answer("MISS", Unwrap(sim)) ELSE Internal)
    /\ hpc' = "responded"
    /\ UNCHANGED <<payload, cacheVars>>
    /\ UNCHANGED <<registryVars, dispatchVars, engineVars, pureVars, libVars>>

\* a handler that stores what the engine returned, failures included
AnalyzeFinishStoresFailure ==
    /\ hpc = "simulating"
    /\ pc = "idle"
    /\ sim # None
    /\ CacheSet(key_of(Unwrap(payload)), Unwrap(sim))
    /\ response' = Some(IF Unwrap(sim).ok THEN Answer("MISS", Unwrap(sim)) ELSE Internal)
    /\ hpc' = "responded"
    /\ UNCHANGED payload
    /\ UNCHANGED <<registryVars, dispatchVars, engineVars, pureVars, libVars>>

\* the engine has returned: the error is mapped, or the result is stored and answered
AnalyzeFinish ==
    /\ hpc = "simulating"
    /\ pc = "idle"
    /\ sim # None
    /\ IF Unwrap(sim).ok
       THEN /\ CacheSet(key_of(Unwrap(payload)), Unwrap(sim))
            /\ response' = Some(Answer("MISS", Unwrap(sim)))
       ELSE /\ response' = Some(Internal)
            /\ UNCHANGED cacheVars
    /\ hpc' = "responded"
    /\ UNCHANGED payload
    /\ UNCHANGED <<registryVars, dispatchVars, engineVars, pureVars, libVars>>

\* the handler's future is dropped while it awaits the engine: the call in
\* flight is aborted with it, the lines after the await never run
AnalyzeCancel ==
    /\ hpc = "simulating"
    /\ hpc' = "cancelled"
    /\ pc' = "idle"
    /\ providers' = <<>>
    /\ it' = 0
    /\ last_error' = None
    /\ result' = None
    /\ contacted' = <<>>
    /\ lastResp' = None
    /\ request' = None
    /\ sim' = None
    /\ UNCHANGED <<payload, response, cacheVars>>
    /\ UNCHANGED <<registryVars, pureVars, libVars>>

---------------------------------------------------------------------------
(* insights.rs: the rules and the InsightsEngine.  A message is named by   *)
(* the branch that formats it; suggested_fix is a fixed text per branch    *)
(* and is left out.  The u64 sums and the i32 score stay far inside their  *)
(* ranges for the records and the findings of the model.                   *)

Insight(severity, rule, message) ==
    [severity |-> severity, rule |-> rule, message |-> message]

\* r.ledger_write_bytes as f64 / r.transaction_size_bytes as f64 > k, for
\* k = 1.0 and 2.0: both numbers are below 2^53 and exact as f64, and the
\* rounded quotient is above k exactly when the quotient is
write_ratio_above(r, k) == r.ledger_write_bytes > k * r.transaction_size_bytes

\* the test with >= in place of >
write_ratio_from(r, k) == r.ledger_write_bytes >= k * r.transaction_size_bytes

\* StorageEfficiencyRule::evaluate with the lenient test
StorageEfficiencyRule_evaluate_lenient(r) ==
    IF r.transaction_size_bytes = 0
    THEN <<>>
    ELSE IF write_ratio_from(r, 2)
    THEN <<Insight("Critical", "storage_efficiency", "extremely write-heavy")>>
    ELSE IF write_ratio_from(r, 1)
    THEN <<Insight("Warning", "storage_efficiency", "exceed transaction size")>>
    ELSE <<>>

StorageEfficiencyRule_evaluate(r) ==
    IF r.transaction_size_bytes = 0
    THEN <<>>
    ELSE IF write_ratio_above(r, 2)
    THEN <<Insight("Critical", "storage_efficiency", "extremely write-heavy")>>
    ELSE IF write_ratio_above(r, 1)
    THEN <<Insight("Warning", "storage_efficiency", "exceed transaction size")>>
    ELSE <<>>

InstructionDensityRule_evaluate(r) ==
    LET total_ledger == r.ledger_read_bytes + r.ledger_write_bytes
    IN  IF r.cpu_instructions > 50000000 /\ total_ledger < 1024
        THEN <<Insight("Critical", "instruction_density", "heavy computation detected")>>
        ELSE IF r.cpu_instructions > 10000000 /\ total_ledger < 2048
        THEN <<Insight("Warning", "instruction_density", "consider optimising hot loops")>>
        ELSE <<>>

FootprintBloatRule_evaluate(r) ==
    LET estimated_keys == (r.ledger_read_bytes + r.ledger_write_bytes) \div 60
    IN  IF estimated_keys > 20
        THEN <<Insight("Critical", "footprint_bloat", "very large transaction")>>
        ELSE IF estimated_keys > 10
        THEN <<Insight("Warning", "footprint_bloat", "above recommended threshold")>>
        ELSE <<>>

MemoryPressureRule_evaluate(r) ==
    IF r.ram_bytes > 20 * 1024 * 1024
    THEN <<Insight("Critical", "memory_pressure", "is very high")>>
    ELSE IF r.ram_bytes > 5 * 1024 * 1024
    THEN <<Insight("Warning", "memory_pressure", "is elevated")>>
    ELSE <<>>

(* Box<dyn InsightRule>: a built-in rule is named by its type; a rule of   *)
(* the caller is a name() and the findings its evaluate() returns, which   *)
(* are the caller's to write, rule field included.                         *)
BuiltIn(type) == [type |-> type, name |-> "", emits |-> <<>>]

CustomRule(name, emits) == [type |-> "custom", name |-> name, emits |-> emits]

\* InsightRule::name
rule_name(rule) ==
    CASE rule.type = "StorageEfficiencyRule"  -> "storage_efficiency"
      [] rule.type = "InstructionDensityRule" -> "instruction_density"
      [] rule.type = "FootprintBloatRule"     -> "footprint_bloat"
      [] rule.type = "MemoryPressureRule"     -> "memory_pressure"
      [] OTHER -> rule.name

\* InsightRule::evaluate
evaluate(rule, r) ==
    CASE rule.type = "StorageEfficiencyRule"  -> StorageEfficiencyRule_evaluate(r)
      [] rule.type = "InstructionDensityRule" -> InstructionDensityRule_evaluate(r)
      [] rule.type = "FootprintBloatRule"     -> FootprintBloatRule_evaluate(r)
      [] rule.type = "MemoryPressureRule"     -> MemoryPressureRule_evaluate(r)
      [] OTHER -> rule.emits

\* InsightsEngine::new
InsightsEngine_new ==
    <<BuiltIn("StorageEfficiencyRule"), BuiltIn("InstructionDensityRule"),
      BuiltIn("FootprintBloatRule"), BuiltIn("MemoryPressureRule")>>

\* add_rule that puts the rule in front
add_rule_front(rs, rule) == <<rule>> \o rs

\* InsightsEngine::add_rule
add_rule(rs, rule) == Append(rs, rule)

\* self.rules.iter().flat_map(|rule| rule.evaluate(resources)).collect(), from rule i on
RECURSIVE flat_map_evaluate(_, _, _)
flat_map_evaluate(rs, r, i) ==
    IF i > Len(rs)
    THEN <<>>
    ELSE evaluate(rs[i], r) \o flat_map_evaluate(rs, r, i + 1)

\* the for loop of compute_efficiency_score, from finding i on
RECURSIVE deduct_severity(_, _, _)
deduct_severity(score, insights, i) ==
    IF i > Len(insights)
    THEN score
    ELSE deduct_severity(
            CASE insights[i].severity = "Critical" -> score - 20
              [] insights[i].severity = "Warning"  -> score - 10
              [] insights[i].severity = "Info"     -> score - 3,
            insights, i + 1)

\* i32::clamp
clamp(x, lo, hi) == IF x < lo THEN lo ELSE IF x > hi THEN hi ELSE x

\* compute_efficiency_score up to the clamp
score_before_clamp(resources, insights) ==
    LET score0 == deduct_severity(100, insights, 1)
        score1 == IF resources.cpu_instructions > 50000000 THEN score0 - 10
                  ELSE IF resources.cpu_instructions > 10000000 THEN score0 - 5
                  ELSE score0
        score2 == IF resources.ram_bytes > 20 * 1024 * 1024 THEN score1 - 10
                  ELSE IF resources.ram_bytes > 5 * 1024 * 1024 THEN score1 - 5
                  ELSE score1
        total_ledger == resources.ledger_read_bytes + resources.ledger_write_bytes
        score3 == IF total_ledger > 100 * 1024 THEN score2 - 10
                  ELSE IF total_ledger > 50 * 1024 THEN score2 - 5
                  ELSE score2
    IN  score3

\* compute_efficiency_score that returns the score as it is
compute_efficiency_score_unclamped(resources, insights) ==
    score_before_clamp(resources, insights)

compute_efficiency_score(resources, insights) ==
    clamp(score_before_clamp(resources, insights), 0, 100)

InsightsReport(efficiency_score, insights) ==
    [efficiency_score |-> efficiency_score, insights |-> insights]

\* InsightsEngine::analyze
InsightsEngine_analyze(rs, resources) ==
    LET insights == flat_map_evaluate(rs, resources, 1)
    IN  InsightsReport(compute_efficiency_score(resources, insights), insights)

\* rules a caller adds
MaxCustomRules == 2

Severities == {"Info", "Warning", "Critical"}

CustomRules ==
    {CustomRule("always_warn", <<Insight("Info", "always_warn", "Custom rule triggered")>>),
     CustomRule("always_warn", <<>>),
     CustomRule("twice", <<Insight("Critical", "twice", "first"),
                           Insight("Critical", "twice", "second")>>),
     CustomRule("borrowed", <<Insight("Warning", "storage_efficiency", "borrowed")>>)}

\* records around the thresholds of the rules and of the score
InsightResources ==
    {SorobanResources(cpu, ram, read, write, size) :
        cpu \in {100000, 10000001, 50000001},
        ram \in {1024, 5 * 1024 * 1024 + 1, 20 * 1024 * 1024 + 1},
        read \in {0, 256, 1000, 50 * 1024, 100 * 1024},
        write \in {0, 128, 512, 513, 1024, 1025},
        size \in {0, 512}}

\* the engine's callers: what was added, in order, and the record last analysed
Calls(added, resources) == [added |-> added, resources |-> resources]

AddRule(rule) ==
    /\ Len(rules) < Len(InsightsEngine_new) + MaxCustomRules
    /\ rules' = add_rule(rules, rule)
    /\ arg' = Some(Calls(Append(Unwrap(arg).added, rule), None))
    /\ ret' = None
    /\ UNCHANGED <<pool, poolCall, concVars>>
    /\ UNCHANGED <<registryVars, dispatchVars, engineVars, cacheVars, handlerVars>>

Analyse(resources) ==
    /\ ret = None
    /\ ret' = Some(InsightsEngine_analyze(rules, resources))
    /\ arg' = Some(Calls(Unwrap(arg).added, Some(resources)))
    /\ UNCHANGED libVars
    /\ UNCHANGED <<registryVars, dispatchVars, engineVars, cacheVars, handlerVars>>

---------------------------------------------------------------------------
(* contracts/liquidity_pool/src/lib.rs.  The storage of the contract is    *)
(* one record; a key that is not set reads as its unwrap_or default.  A    *)
(* call that panics, fails require_auth or meets a token transfer that     *)
(* fails is rolled back by the host: it leaves the storage as it was.      *)
(* The pair tokens are contracts of the caller's choice; whether a         *)
(* transfer of theirs goes through is an input.  The i128 amounts of the   *)
(* model are far from overflow, so checked_mul always returns Some.        *)

PoolUsers == {"U1", "U2"}

\* the storage before initialize
NoPool ==
    [initialized |-> FALSE, paused |-> FALSE, fee_bps |-> 30,
     reserve_a |-> 0, reserve_b |-> 0, total_shares |-> 0,
     balance |-> [u \in PoolUsers |-> 0],
     allowance |-> [k \in PoolUsers \X PoolUsers |-> None]]

Abs(x) == IF x < 0 THEN 0 - x ELSE x

\* i128 division: the quotient is truncated toward zero
tdiv(a, b) ==
    IF (a < 0) = (b < 0) THEN Abs(a) \div Abs(b) ELSE 0 - (Abs(a) \div Abs(b))

\* the while loop of sqrt
RECURSIVE sqrt_loop(_, _, _)
sqrt_loop(x, y, z) ==
    IF z < y THEN sqrt_loop(x, z, tdiv(tdiv(x, z) + z, 2)) ELSE y

sqrt(x) == IF x = 0 THEN 0 ELSE sqrt_loop(x, x, tdiv(x + 1, 2))

\* what a call leaves: the storage and Result<T, Error>, or the host's failure
PoolOk(st, val) == [storage |-> st, trapped |-> FALSE, ok |-> TRUE, val |-> val, err |-> ""]

PoolErr(st, e) == [storage |-> st, trapped |-> FALSE, ok |-> FALSE, val |-> <<>>, err |-> e]

PoolTrap(st) == [storage |-> st, trapped |-> TRUE, ok |-> FALSE, val |-> <<>>, err |-> ""]

\* check_paused that never refuses
check_paused_never(st) == FALSE

\* check_paused(e).is_err()
check_paused(st) == st.paused

initialize(st) ==
    IF st.initialized
    THEN PoolErr(st, "AlreadyInitialized")
    ELSE PoolOk([st EXCEPT !.initialized = TRUE, !.reserve_a = 0, !.reserve_b = 0,
                           !.total_shares = 0, !.fee_bps = 30], <<>>)

set_fee(st, fee_bps, auth) ==
    IF ~(fee_bps \in 0..100) THEN PoolErr(st, "InvalidFee")
    ELSE IF ~st.initialized THEN PoolErr(st, "NotInitialized")
    ELSE IF ~auth THEN PoolTrap(st)
    ELSE PoolOk([st EXCEPT !.fee_bps = fee_bps], <<>>)

set_paused(st, paused, auth) ==
    IF ~st.initialized THEN PoolErr(st, "NotInitialized")
    ELSE IF ~auth THEN PoolTrap(st)
    ELSE PoolOk([st EXCEPT !.paused = paused], <<>>)

\* the shares deposit mints; a division by a zero reserve panics
deposit_shares(st, amount_a, amount_b) ==
    IF st.total_shares = 0
    THEN Some(sqrt(amount_a * amount_b))
    ELSE IF st.reserve_a = 0 \/ st.reserve_b = 0
    THEN None
    ELSE LET share_a == tdiv(amount_a * st.total_shares, st.reserve_a)
             share_b == tdiv(amount_b * st.total_shares, st.reserve_b)
         IN  Some(IF share_a < share_b THEN share_a ELSE share_b)

deposit(st, to, amount_a, amount_b, auth, tokens) ==
    IF check_paused(st) THEN PoolErr(st, "Paused")
    ELSE IF ~auth THEN PoolTrap(st)
    ELSE IF ~st.initialized THEN PoolErr(st, "NotInitialized")
    ELSE IF ~tokens THEN PoolTrap(st)
    ELSE IF deposit_shares(st, amount_a, amount_b) = None THEN PoolTrap(st)
    ELSE LET shares == Unwrap(deposit_shares(st, amount_a, amount_b))
         IN  PoolOk([st EXCEPT !.balance[to] = @ + shares,
                               !.total_shares = @ + shares,
                               !.reserve_a = @ + amount_a,
                               !.reserve_b = @ + amount_b], shares)

\* the input swap charges for out, by the fee in force
swap_amount_in(reserve_in, reserve_out, out, fee_bps) ==
    LET fee_scale   == 10000 - fee_bps
        numerator   == reserve_in * out * 10000
        denominator == (reserve_out - out) * fee_scale
    IN  tdiv(numerator, denominator) + 1

swap(st, to, buy_a, out, in_max, auth, tokens) ==
    IF check_paused(st) THEN PoolErr(st, "Paused")
    ELSE IF ~auth THEN PoolTrap(st)
    ELSE IF ~st.initialized THEN PoolErr(st, "NotInitialized")
    ELSE LET reserve_in  == IF buy_a THEN st.reserve_b ELSE st.reserve_a
             reserve_out == IF buy_a THEN st.reserve_a ELSE st.reserve_b
         IN  IF out >= reserve_out THEN PoolErr(st, "InsufficientLiquidity")
             ELSE LET amount_in == swap_amount_in(reserve_in, reserve_out, out, st.fee_bps)
                  IN  IF amount_in > in_max THEN PoolErr(st, "SlippageExceeded")
                      ELSE IF ~tokens THEN PoolTrap(st)
                      ELSE IF buy_a
                      THEN PoolOk([st EXCEPT !.reserve_a = @ - out,
                                             !.reserve_b = @ + amount_in], amount_in)
                      ELSE PoolOk([st EXCEPT !.reserve_a = @ + amount_in,
                                             !.reserve_b = @ - out], amount_in)

withdraw(st, to, share_amount, auth, tokens) ==
    IF check_paused(st) THEN PoolErr(st, "Paused")
    ELSE IF ~auth THEN PoolTrap(st)
    ELSE IF share_amount > st.balance[to] THEN PoolErr(st, "InsufficientShares")
    ELSE IF ~st.initialized THEN PoolErr(st, "NotInitialized")
    ELSE IF st.total_shares = 0 THEN PoolTrap(st)
    ELSE LET amount_a == tdiv(share_amount * st.reserve_a, st.total_shares)
             amount_b == tdiv(share_amount * st.reserve_b, st.total_shares)
         IN  IF ~tokens THEN PoolTrap(st)
             ELSE PoolOk([st EXCEPT !.balance[to] = @ - share_amount,
                                    !.total_shares = @ - share_amount,
                                    !.reserve_a = @ - amount_a,
                                    !.reserve_b = @ - amount_b],
                         <<amount_a, amount_b>>)

burn(st, from, amount, auth) ==
    IF check_paused(st) THEN PoolErr(st, "Paused")
    ELSE IF ~auth THEN PoolTrap(st)
    ELSE IF amount > st.balance[from] THEN PoolErr(st, "InsufficientShares")
    ELSE IF ~st.initialized THEN PoolErr(st, "NotInitialized")
    ELSE PoolOk([st EXCEPT !.balance[from] = @ - amount,
                           !.total_shares = @ - amount], <<>>)

\* a transfer that credits to and does not debit from
transfer_mints(st, from, to, amount, auth) ==
    IF ~auth THEN PoolTrap(st)
    ELSE IF st.balance[from] < amount THEN PoolErr(st, "InsufficientBalance")
    ELSE PoolOk([st EXCEPT !.balance[to] = @ + amount], <<>>)

\* the balance of to is read after the balance of from is written
transfer(st, from, to, amount, auth) ==
    IF ~auth THEN PoolTrap(st)
    ELSE IF st.balance[from] < amount THEN PoolErr(st, "InsufficientBalance")
    ELSE LET debited == [st EXCEPT !.balance[from] = @ - amount]
         IN  PoolOk([debited EXCEPT !.balance[to] = @ + amount], <<>>)

balance(st, id) == st.balance[id]

total_supply(st) == st.total_shares

AllowanceValue(amount, expiration_ledger) ==
    [amount |-> amount, expiration_ledger |-> expiration_ledger]

approve(st, from, spender, amount, expiration_ledger, auth) ==
    IF ~auth THEN PoolTrap(st)
    ELSE PoolOk([st EXCEPT !.allowance[<<from, spender>>] =
                               Some(AllowanceValue(amount, expiration_ledger))], <<>>)

\* sequence is e.ledger().sequence() at the call
allowance(st, from, spender, sequence) ==
    IF st.allowance[<<from, spender>>] = None THEN 0
    ELSE IF sequence > Unwrap(st.allowance[<<from, spender>>]).expiration_ledger THEN 0
    ELSE Unwrap(st.allowance[<<from, spender>>]).amount

\* Self::transfer asks for the authorisation of from; an Err of the call
\* leaves nothing of what it wrote before
transfer_from(st, spender, from, to, amount, sequence, auth, auth_from) ==
    IF ~auth THEN PoolTrap(st)
    ELSE LET current_allowance == allowance(st, from, spender, sequence)
             new_allowance     == current_allowance - amount
             key               == <<from, spender>>
         IN  IF current_allowance < amount THEN PoolErr(st, "InsufficientBalance")
             ELSE IF new_allowance > 0 /\ st.allowance[key] = None THEN PoolTrap(st)
             ELSE LET spent ==
                          IF new_allowance > 0
                          THEN [st EXCEPT !.allowance[key] =
                                   Some(AllowanceValue(new_allowance,
                                            Unwrap(st.allowance[key]).expiration_ledger))]
                          ELSE [st EXCEPT !.allowance[key] = None]
                      r == transfer(spent, from, to, amount, auth_from)
                  IN  IF r.ok THEN r ELSE [r EXCEPT !.storage = st]

\* calls that change shares or reserves, in one run of the model
MaxPoolCalls == 2

\* the last call: its name and arguments, what it returned, the storage before it
\* cycle tells how far a pause has gone: 1 once a call was refused as Paused,
\* 2 once set_paused(false) has lifted the pause after that
PoolCall(op, args, r, before, n, cycle) ==
    [op |-> op, args |-> args, trapped |-> r.trapped, ok |-> r.ok, val |-> r.val,
     err |-> r.err, before |-> before, n |-> n, cycle |-> cycle]

NoPoolCall == PoolCall("deploy", <<>>, PoolOk(NoPool, <<>>), NoPool, 0, 0)

\* require_auth passes or not; the transfers of the pair tokens go through or not
HostOutcomes == {<<TRUE, TRUE>>, <<FALSE, TRUE>>, <<TRUE, FALSE>>}

DepositAmounts == {<<0 - 1000, 2>>, <<2, 2>>}

ShareAmounts == {0 - 1, 1, 2}

TransferAmounts == {0 - 1, 1}

SwapOuts == {0 - 1, 1}

\* in_max of a swap with the outcome of the host: a limit of zero that the
\* host lets through, a generous limit under every outcome
SwapLimits == {<<0, <<TRUE, TRUE>>>>} \cup {<<5000, h>> : h \in HostOutcomes}

FeeArgs == {0, 100, 101}

\* the host commits what the call left, or nothing
PoolStep(op, args, r) ==
    LET n == IF /\ r.storage # pool
                /\ op \in {"deposit", "swap", "withdraw", "burn", "transfer", "transfer_from"}
             THEN poolCall.n + 1
             ELSE poolCall.n
        cycle == IF poolCall.cycle = 0 /\ r.err = "Paused" THEN 1
                 ELSE IF poolCall.cycle = 1 /\ op = "set_paused" /\ r.ok
                         /\ pool.paused /\ ~r.storage.paused THEN 2
                 ELSE poolCall.cycle
    IN  /\ n <= MaxPoolCalls
        /\ pool' = r.storage
        /\ poolCall' = PoolCall(op, args, r, pool, n, cycle)
        /\ UNCHANGED <<rules, concVars>>
        /\ UNCHANGED <<registryVars, dispatchVars, engineVars, cacheVars, handlerVars, pureVars>>

Initialize == PoolStep("initialize", <<>>, initialize(pool))

SetFee(fee_bps, auth) == PoolStep("set_fee", <<fee_bps>>, set_fee(pool, fee_bps, auth))

SetPaused(paused, auth) == PoolStep("set_paused", <<paused>>, set_paused(pool, paused, auth))

Deposit(to, amounts, host) ==
    PoolStep("deposit", <<to, amounts[1], amounts[2]>>,
             deposit(pool, to, amounts[1], amounts[2], host[1], host[2]))

Swap(to, buy_a, out, in_max, host) ==
    PoolStep("swap", <<buy_a, out, in_max>>,
             swap(pool, to, buy_a, out, in_max, host[1], host[2]))

Withdraw(to, share_amount, host) ==
    PoolStep("withdraw", <<to, share_amount>>,
             withdraw(pool, to, share_amount, host[1], host[2]))

Burn(from, amount, auth) ==
    PoolStep("burn", <<from, amount>>, burn(pool, from, amount, auth))

Transfer(from, to, amount, auth) ==
    PoolStep("transfer", <<from, to, amount>>, transfer(pool, from, to, amount, auth))

ExpirationLedgers == {1}

LedgerSequences == {1, 2}

AllowanceAmounts == {0 - 1, 1}

Approve(from, spender, amount, expiration_ledger, auth) ==
    PoolStep("approve", <<from, spender, amount, expiration_ledger>>,
             approve(pool, from, spender, amount, expiration_ledger, auth))

TransferFrom(spender, from, to, amount, sequence, host) ==
    PoolStep("transfer_from", <<spender, from, to, amount, sequence>>,
             transfer_from(pool, spender, from, to, amount, sequence, host[1], host[2]))

---------------------------------------------------------------------------
(* network_config.rs: check_limits and compare.  An f64 is the rational    *)
(* number it stands for, a pair of numerator and denominator in lowest     *)
(* terms; the costs of the model are far below 2^63, so the casts to i64   *)
(* keep them.                                                              *)

LimitExceeded(resource, used, limit) ==
    [resource |-> resource, used |-> used, limit |-> limit]

\* NetworkConfig::check_limits
check_limits(config, resources) ==
    (IF resources.cpu_instructions > config.tx_max_instructions
     THEN <<LimitExceeded("cpu_instructions", resources.cpu_instructions,
                          config.tx_max_instructions)>> ELSE <<>>)
    \o (IF resources.ram_bytes > config.tx_max_memory_bytes
        THEN <<LimitExceeded("ram_bytes", resources.ram_bytes,
                             config.tx_max_memory_bytes)>> ELSE <<>>)
    \o (IF resources.ledger_read_bytes > config.tx_max_read_bytes
        THEN <<LimitExceeded("ledger_read_bytes", resources.ledger_read_bytes,
                             config.tx_max_read_bytes)>> ELSE <<>>)
    \o (IF resources.ledger_write_bytes > config.tx_max_write_bytes
        THEN <<LimitExceeded("ledger_write_bytes", resources.ledger_write_bytes,
                             config.tx_max_write_bytes)>> ELSE <<>>)
    \o (IF resources.transaction_size_bytes > config.tx_max_size_bytes
        THEN <<LimitExceeded("transaction_size_bytes", resources.transaction_size_bytes,
                             config.tx_max_size_bytes)>> ELSE <<>>)

RECURSIVE gcd(_, _)
gcd(a, b) == IF b = 0 THEN a ELSE gcd(b, a % b)

\* the number num/den, den > 0
Rational(num, den) ==
    LET g == gcd(Abs(num), den)
    IN  [num |-> num \div g, den |-> den \div g]

ProtocolCostSnapshot(config, cost_stroops, limits_exceeded) ==
    [config_name |-> config.name, protocol_version |-> config.protocol_version,
     cost_stroops |-> cost_stroops, limits_exceeded |-> limits_exceeded]

\* compare with the difference taken the other way round
compare_reversed(resources, baseline, shadow) ==
    LET baseline_cost == config_calculate_cost(baseline, resources)
        shadow_cost   == config_calculate_cost(shadow, resources)
        diff          == baseline_cost - shadow_cost
        pct           == IF baseline_cost > 0
                         THEN Rational(diff * 100, baseline_cost)
                         ELSE Rational(0, 1)
    IN  [baseline |-> ProtocolCostSnapshot(baseline, baseline_cost,
                                           check_limits(baseline, resources)),
         shadow |-> ProtocolCostSnapshot(shadow, shadow_cost,
                                         check_limits(shadow, resources)),
         cost_difference_stroops |-> diff,
         cost_change_pct |-> pct]

compare(resources, baseline, shadow) ==
    LET baseline_cost == config_calculate_cost(baseline, resources)
        shadow_cost   == config_calculate_cost(shadow, resources)
        diff          == shadow_cost - baseline_cost
        pct           == IF baseline_cost > 0
                         THEN Rational(diff * 100, baseline_cost)
                         ELSE Rational(0, 1)
    IN  [baseline |-> ProtocolCostSnapshot(baseline, baseline_cost,
                                           check_limits(baseline, resources)),
         shadow |-> ProtocolCostSnapshot(shadow, shadow_cost,
                                         check_limits(shadow, resources)),
         cost_difference_stroops |-> diff,
         cost_change_pct |-> pct]

Presets == {protocol_21, protocol_22, custom_private}

\* records from nothing to over the limits of protocol_21
CompareResources ==
    {SorobanResources(cpu, ram, read, write, size) :
        cpu \in {0, 10000, 1000000, 150000000},
        ram \in {0, 2048},
        read \in {0, 512, 800},
        write \in {0, 256, 100000},
        size \in {0, 1024}}

CompareInput(resources, baseline, shadow) ==
    [resources |-> resources, baseline |-> baseline, shadow |-> shadow]

CompareInputs ==
    {CompareInput(r, b, s) : r \in CompareResources, b \in Presets, s \in Presets}

Compare ==
    /\ arg \in {Some(x) : x \in CompareInputs}
    /\ ret = None
    /\ ret' = Some(compare(Unwrap(arg).resources, Unwrap(arg).baseline, Unwrap(arg).shadow))
    /\ UNCHANGED <<arg, libVars>>
    /\ UNCHANGED <<registryVars, dispatchVars, engineVars, cacheVars, handlerVars>>

---------------------------------------------------------------------------
(* parser.rs: ArgParser::parse_value.  A JSON value is the tree            *)
(* serde_json::from_str builds; an object carries its members as the text  *)
(* lists them, and the Map serde_json makes of them keeps one entry per    *)
(* key (the last value) and iterates in key order, or in insertion order   *)
(* when the crate is built with preserve_order.  ScSymbol, ScString and    *)
(* ScBytes are taken by the conversions of the stellar-xdr crate, which    *)
(* test the length and nothing else.                                       *)

JNull == [t |-> "Null"]
JBool(b) == [t |-> "Bool", b |-> b]
\* repr is "i64", "u64" (above i64::MAX) or "f64"
JNumber(repr, text) == [t |-> "Number", repr |-> repr, text |-> text]
JString(s) == [t |-> "String", s |-> s]
JArray(items) == [t |-> "Array", items |-> items]
JObject(members) == [t |-> "Object", members |-> members]

ScVoid == [t |-> "Void"]
ScBool(b) == [t |-> "Bool", b |-> b]
ScNumber(t, text) == [t |-> t, text |-> text]
ScSymbol(s) == [t |-> "Symbol", s |-> s]
ScString(s) == [t |-> "String", s |-> s]
ScBytes(hex) == [t |-> "Bytes", hex |-> hex]
ScAddress(strkey) == [t |-> "Address", strkey |-> strkey]
ScVec(items) == [t |-> "Vec", items |-> items]
ScMapEntry(key, val) == [key |-> key, val |-> val]
ScMap(entries) == [t |-> "Map", entries |-> entries]

InvalidType(location, expected) ==
    [kind |-> "InvalidType", location |-> location, details |-> expected]

InvalidSymbol(location, details) ==
    [kind |-> "InvalidSymbol", location |-> location, details |-> details]

InvalidHex(location, details) ==
    [kind |-> "InvalidHex", location |-> location, details |-> details]

ParsedValue(val) == [ok |-> TRUE, val |-> val, err |-> <<>>]

ParseFailed(e) == [ok |-> FALSE, val |-> <<>>, err |-> e]

\* the UTF-8 byte of a character of the model
ByteOf(c) ==
    CASE c = "a" -> 97 [] c = "b" -> 98 [] c = "x" -> 120 [] c = "h" -> 104
      [] c = "0" -> 48 [] c = "1" -> 49 [] c = "_" -> 95 [] c = " " -> 32
      [] c = "-" -> 45 [] c = ":" -> 58 [] c = "A" -> 65 [] c = "C" -> 67
      [] c = "G" -> 71

as_bytes(s) == [i \in 1..Len(s) |-> ByteOf(s[i])]

\* Ord of Vec<u8> and of str: the first byte that differs decides, then the length
RECURSIVE bytes_lt(_, _)
bytes_lt(a, b) ==
    IF b = <<>> THEN FALSE
    ELSE IF a = <<>> THEN TRUE
    ELSE IF a[1] # b[1] THEN a[1] < b[1]
    ELSE bytes_lt(Tail(a), Tail(b))

\* ScVal::Symbol(sym).to_xdr(): the discriminant SCV_SYMBOL, the length,
\* the bytes, zeros up to a multiple of four
symbol_to_xdr(s) ==
    <<0, 0, 0, 15>> \o <<0, 0, 0, Len(s)>> \o as_bytes(s)
        \o [i \in 1..(pad4(Len(s)) - Len(s)) |-> 0]

\* the key of the sort taken as the text of the symbol
map_sort_key_text(s) == as_bytes(s)

\* a.key.to_xdr(Limits::none()).unwrap_or_default()
map_sort_key(s) == symbol_to_xdr(s)

\* Vec::insert at the place a stable sort gives an element after those before it
RECURSIVE insert_sorted(_, _)
insert_sorted(sorted, e) ==
    IF sorted = <<>> THEN <<e>>
    ELSE IF bytes_lt(map_sort_key(e.key.s), map_sort_key(sorted[Len(sorted)].key.s))
    THEN Append(insert_sorted(SubSeq(sorted, 1, Len(sorted) - 1), e), sorted[Len(sorted)])
    ELSE Append(sorted, e)

\* entries.sort_by(|a, b| a_bytes.cmp(&b_bytes))
RECURSIVE sort_by_key_xdr(_)
sort_by_key_xdr(entries) ==
    IF entries = <<>> THEN <<>>
    ELSE insert_sorted(sort_by_key_xdr(SubSeq(entries, 1, Len(entries) - 1)),
                       entries[Len(entries)])

\* serde_json::Map: the members with the last value of each key, at the
\* place of the key's first member
map_members(members) ==
    LET first(i) == \A j \in 1..(i - 1) : members[j][1] # members[i][1]
        last(k)  == CHOOSE i \in 1..Len(members) :
                        /\ members[i][1] = k
                        /\ \A j \in (i + 1)..Len(members) : members[j][1] # k
    IN  [m \in 1..Len(members) |->
            IF first(m) THEN Some(<<members[m][1], members[last(members[m][1])][2]>>)
            ELSE None]

RECURSIVE flatten(_)
flatten(opts) ==
    IF opts = <<>> THEN <<>>
    ELSE (IF opts[1] = None THEN <<>> ELSE <<Unwrap(opts[1])>>) \o flatten(Tail(opts))

\* BTreeMap order: the keys ascending as strings
RECURSIVE insert_by_text(_, _)
insert_by_text(sorted, m) ==
    IF sorted = <<>> THEN <<m>>
    ELSE IF bytes_lt(as_bytes(m[1]), as_bytes(sorted[Len(sorted)][1]))
    THEN Append(insert_by_text(SubSeq(sorted, 1, Len(sorted) - 1), m), sorted[Len(sorted)])
    ELSE Append(sorted, m)

RECURSIVE sort_by_text(_)
sort_by_text(ms) ==
    IF ms = <<>> THEN <<>>
    ELSE insert_by_text(sort_by_text(SubSeq(ms, 1, Len(ms) - 1)), ms[Len(ms)])

\* for (k, v) in obj
map_iter(members, preserve_order) ==
    IF preserve_order
    THEN flatten(map_members(members))
    ELSE sort_by_text(flatten(map_members(members)))

Decoded(val) == [ok |-> TRUE, val |-> val, err |-> ""]

Undecoded(msg) == [ok |-> FALSE, val |-> <<>>, err |-> msg]

HexDigits == {"0", "1", "a", "b"}

HexVal(c) == CASE c = "0" -> 0 [] c = "1" -> 1 [] c = "a" -> 10 [] c = "b" -> 11

\* hex::decode: an odd length or a character that is no hex digit is an error
hex_decode(hex_str) ==
    IF Len(hex_str) % 2 = 1 THEN Undecoded("Odd number of digits")
    ELSE IF \E i \in 1..Len(hex_str) : hex_str[i] \notin HexDigits
    THEN Undecoded("Invalid character")
    ELSE Decoded([i \in 1..(Len(hex_str) \div 2) |->
                16 * HexVal(hex_str[2 * i - 1]) + HexVal(hex_str[2 * i])])

\* the strkeys of the inputs that Strkey::from_string decodes
AddressLen == 56

ContractAddress == [i \in 1..AddressLen |-> IF i = 1 THEN "C" ELSE "A"]

\* a text of the length of a strkey that does not decode (a wrong checksum)
BrokenAddress == [i \in 1..AddressLen |-> IF i = 1 THEN "C" ELSE "b"]

parse_address(address) ==
    IF address = ContractAddress THEN Decoded(ScAddress(address))
    ELSE Undecoded("invalid strkey")

\* format!("{}[{}]", path, i)
index_path(path, i) == path \o <<"[", ToString(i), "]">>

\* format!("{}.{}", path, k)
member_path(path, k) == path \o <<".">> \o k

parse_string(s, path) ==
    IF /\ Len(s) = AddressLen
       /\ s[1] \in {"G", "C"}
       /\ parse_address(s).ok
    THEN ParsedValue(parse_address(s).val)
    ELSE IF Len(s) >= 1 /\ s[1] = ":"
    THEN IF Len(Tail(s)) <= SCSYMBOL_LIMIT
         THEN ParsedValue(ScSymbol(Tail(s)))
         ELSE ParseFailed(InvalidSymbol(path, "Symbol must be 1-32 characters"))
    ELSE IF Len(s) >= 2 /\ s[1] = "0" /\ s[2] = "x"
    THEN IF hex_decode(SubSeq(s, 3, Len(s))).ok
         THEN ParsedValue(ScBytes(hex_decode(SubSeq(s, 3, Len(s))).val))
         ELSE ParseFailed(InvalidHex(path, hex_decode(SubSeq(s, 3, Len(s))).err))
    ELSE ParsedValue(ScString(s))

RECURSIVE parse_value(_, _, _)
RECURSIVE parse_items(_, _, _, _, _)
RECURSIVE parse_members(_, _, _, _, _)

\* for (i, v) in arr.iter().enumerate() { vec.push(parse_value(v, ..)?) }
parse_items(arr, path, i, vec, preserve_order) ==
    IF i > Len(arr) THEN ParsedValue(ScVec(vec))
    ELSE LET r == parse_value(arr[i], index_path(path, i - 1), preserve_order)
         IN  IF r.ok
             THEN parse_items(arr, path, i + 1, Append(vec, r.val), preserve_order)
             ELSE r

\* for (k, v) in obj { .. entries.push(ScMapEntry { key, val }) }, then the sort
parse_members(obj, path, i, entries, preserve_order) ==
    IF i > Len(obj) THEN ParsedValue(ScMap(sort_by_key_xdr(entries)))
    ELSE LET k == obj[i][1]
             r == parse_value(obj[i][2], member_path(path, k), preserve_order)
         IN  IF Len(k) > SCSYMBOL_LIMIT
             THEN ParseFailed(InvalidSymbol(member_path(path, k),
                                            "Key name too long for symbol"))
             ELSE IF r.ok
             THEN parse_members(obj, path, i + 1,
                                Append(entries, ScMapEntry(ScSymbol(k), r.val)),
                                preserve_order)
             ELSE r

parse_value(value, path, preserve_order) ==
    CASE value.t = "Null" -> ParsedValue(ScVoid)
      [] value.t = "Bool" -> ParsedValue(ScBool(value.b))
      [] value.t = "Number" ->
            IF value.repr = "i64" THEN ParsedValue(ScNumber("I64", value.text))
            ELSE IF value.repr = "u64" THEN ParsedValue(ScNumber("U64", value.text))
            ELSE ParseFailed(InvalidType(path, "integer"))
      [] value.t = "String" -> parse_string(value.s, path)
      [] value.t = "Array" -> parse_items(value.items, path, 1, <<>>, preserve_order)
      [] value.t = "Object" ->
            parse_members(map_iter(value.members, preserve_order), path, 1, <<>>,
                          preserve_order)

\* the inputs of the parser: members per object of the inputs
MaxMembers == 3

Repeat(c, n) == [i \in 1..n |-> c]

MemberKeys == {<<"b">>, <<"a", "a">>, <<"a">>}

MemberValues == {JNumber("i64", "1"), JNumber("i64", "2")}

FlatObjects ==
    {JObject(ms) : ms \in UNION {[1..n -> MemberKeys \X MemberValues] : n \in 0..MaxMembers}}

SymbolTexts ==
    {<<":">>, <<":", "a">>, <<":", "a", "_", "1">>, <<":", "a", " ", "b">>,
     <<":", "a", "-", "1">>, <<":", ":">>,
     <<":">> \o Repeat("x", SCSYMBOL_LIMIT), <<":">> \o Repeat("x", SCSYMBOL_LIMIT + 1)}

OtherTexts ==
    {<<>>, <<"h">>, <<"0", "x", "0", "a">>, <<"0", "x", "0">>, <<"0", "x", "h", "h">>,
     <<"0", "x">>, ContractAddress, BrokenAddress}

JsonLeaves ==
    {JNull, JBool(TRUE), JNumber("i64", "1"), JNumber("u64", "18446744073709551615"),
     JNumber("f64", "1.5")}
        \cup {JString(s) : s \in SymbolTexts \cup OtherTexts}

JsonValues ==
    JsonLeaves
        \cup FlatObjects
        \cup {JArray(<<o>>) : o \in FlatObjects}
        \cup {JObject(<<<<<<"a">>, o>>, <<<<"b">>, JArray(<<o, JNull>>)>>>>) : o \in FlatObjects}
        \cup {JArray(<<>>), JArray(<<JNumber("i64", "1"), JNumber("f64", "1.5")>>),
              JObject(<<<<Repeat("x", SCSYMBOL_LIMIT + 1), JNull>>>>),
              JObject(<<<<Repeat("x", SCSYMBOL_LIMIT), JNull>>, <<<<"a">>, JNull>>>>),
              JObject(<<<<<<"b">>, JString(<<":">>)>>, <<<<"a">>, JNumber("f64", "1.5")>>>>),
              JObject(<<<<<<>>, JNull>>, <<<<"a">>, JString(<<":", "a", " ", "b">>)>>>>)}

ParserInput(value, preserve_order) ==
    [value |-> value, preserve_order |-> preserve_order]

ParserInputs == {ParserInput(v, p) : v \in JsonValues, p \in BOOLEAN}

\* ArgParser::parse on a text that serde_json reads as the value
Parse ==
    /\ arg \in {Some(x) : x \in ParserInputs}
    /\ ret = None
    /\ ret' = Some(parse_value(Unwrap(arg).value, <<"$">>, Unwrap(arg).preserve_order))
    /\ UNCHANGED <<arg, libVars>>
    /\ UNCHANGED <<registryVars, dispatchVars, engineVars, cacheVars, handlerVars>>

---------------------------------------------------------------------------
(* rpc_provider.rs, one provider under concurrent callers.  The counter is *)
(* an AtomicU64 and tripped_at sits behind an RwLock: a call is its atomic *)
(* operation on the counter, then, if it writes tripped_at at all, the     *)
(* write under the lock; other callers run between the two.  The health    *)
(* checker is one task, so one probe result is applied at a time.          *)

\* callers that report to the registry at the same time
MaxCallers == 2

Callers == 1..MaxCallers

\* calls that overlap, from one state of rest of the registry to the next
MaxBatch == 3

\* a caller with no call in flight
NoCall == [op |-> "none", pc |-> "idle"]

NoCalls == [t \in Callers |-> NoCall]

NoBatch == [failures |-> 0, successes |-> 0, counter |-> 0, tripped_at |-> None]

Quiescent == \A t \in Callers : calls[t].pc = "idle"

SuccessOps == {"report_success", "probe_ok"}

FailureOps == {"report_failure", "probe_failed"}

ProbeOps == {"probe_ok", "probe_failed"}

\* the calls begun since the registry was last at rest, and the state it was in
Begun(op) ==
    LET from == IF Quiescent
                THEN [NoBatch EXCEPT !.counter = states[1].consecutive_failures,
                                     !.tripped_at = states[1].tripped_at]
                ELSE batch
    IN  IF op \in FailureOps
        THEN [from EXCEPT !.failures = @ + 1]
        ELSE [from EXCEPT !.successes = @ + 1]

CanBegin(t, op) ==
    /\ calls[t].pc = "idle"
    /\ Quiescent \/ batch.failures + batch.successes < MaxBatch
    /\ op \in ProbeOps => \A u \in Callers : calls[u].op \notin ProbeOps

RaceFrame ==
    /\ UNCHANGED <<now, failsSince, lastFailAt, lastCall>>
    /\ UNCHANGED <<dispatchVars, engineVars, cacheVars, handlerVars, pureVars>>
    /\ UNCHANGED <<rules, pool, poolCall, slots>>

\* state.consecutive_failures.store(0), after latest_ledger.store(ledger) in a probe
CounterStore(t, op, ledger) ==
    /\ CanBegin(t, op)
    /\ states' = [states EXCEPT ![1].consecutive_failures = 0,
                                ![1].latest_ledger =
                                    IF op = "probe_ok" THEN ledger ELSE @]
    /\ calls' = [calls EXCEPT ![t] = [op |-> op, pc |-> "write"]]
    /\ batch' = Begun(op)
    /\ RaceFrame

\* let prev = state.consecutive_failures.fetch_add(1); the call is over
\* unless prev + 1 >= CIRCUIT_BREAKER_THRESHOLD
CounterAdd(t, op) ==
    /\ CanBegin(t, op)
    /\ states[1].consecutive_failures < MaxFailures
    /\ LET prev == states[1].consecutive_failures
       IN  /\ states' = [states EXCEPT ![1].consecutive_failures = prev + 1]
           /\ calls' = [calls EXCEPT ![t] =
                           IF prev + 1 >= CIRCUIT_BREAKER_THRESHOLD
                           THEN [op |-> op, pc |-> "write"]
                           ELSE NoCall]
    /\ batch' = Begun(op)
    /\ RaceFrame

\* let mut tripped = state.tripped_at.write().await; *tripped = None or Some(now)
TrippedWrite(t) ==
    /\ calls[t].pc = "write"
    /\ states' = [states EXCEPT ![1].tripped_at =
                     IF calls[t].op \in SuccessOps THEN None ELSE Some(now)]
    /\ calls' = [calls EXCEPT ![t] = NoCall]
    /\ UNCHANGED batch
    /\ RaceFrame

---------------------------------------------------------------------------
(* main.rs: analyze requests served at the same time.  A handler runs up   *)
(* to the end of cache.get, waits for the engine, and on Ok calls          *)
(* cache.set and answers; other handlers run at each await.  The engine    *)
(* call is one step that returns any value simulate_from_contract_id can   *)
(* return for the request; a handler whose connection is dropped while it  *)
(* waits is never resumed.                                                 *)

\* requests served at the same time
MaxConnections == 2

Connections == 1..MaxConnections

\* missed and misses_before tell what cache.get of the request met; last is
\* set on the handler whose cache.set is the latest under its fingerprint
Slot(pc_, payload_, missed, misses_before, sim_, response_, last) ==
    [pc |-> pc_, payload |-> payload_, missed |-> missed, misses_before |-> misses_before,
     sim |-> sim_, response |-> response_, last |-> last]

NoSlot == Slot("idle", None, FALSE, 0, None, None, FALSE)

NoSlots == [c \in Connections |-> NoSlot]

\* what simulate_from_contract_id can return for a request
EngineReturns(req) ==
    IF early_errors(req) # {}
    THEN {Returned(Failed(e), None) : e \in early_errors(req)}
    ELSE {returned_value(req, r) : r \in {Ok(l) : l \in Ledgers} \cup {Failed(AllUnavailable)}}

SlotFrame ==
    /\ UNCHANGED <<registryVars, dispatchVars, engineVars, handlerVars, pureVars>>
    /\ UNCHANGED <<rules, pool, poolCall, calls, batch>>

\* the handler up to the end of cache.get; a connection carries one request
SlotGet(c, p) ==
    /\ slots[c].pc = "idle"
    /\ CacheGet(key_of(p))
    /\ LET found == inner_get(inner, key_of(p), now)
       IN  slots' = [slots EXCEPT ![c] =
                        IF found # None
                        THEN Slot("responded", Some(p), FALSE, misses, None,
                                  Some(Answer("HIT", Unwrap(found))), FALSE)
                        ELSE Slot("simulating", Some(p), TRUE, misses, None, None, FALSE)]
    /\ SlotFrame

\* simulate_from_contract_id(...).await returns
SlotEngine(c, r) ==
    /\ slots[c].pc = "simulating"
    /\ r \in EngineReturns(Unwrap(slots[c].payload))
    /\ slots' = [slots EXCEPT ![c].pc = "returned", ![c].sim = Some(r)]
    /\ UNCHANGED cacheVars
    /\ SlotFrame

\* the error is mapped, or the result is stored and answered
SlotFinish(c) ==
    /\ slots[c].pc = "returned"
    /\ LET r   == Unwrap(slots[c].sim)
           key == key_of(Unwrap(slots[c].payload))
       IN  IF r.ok
           THEN /\ CacheSet(key, r)
                /\ slots' = [d \in Connections |->
                                IF d = c
                                THEN [slots[c] EXCEPT !.pc = "responded",
                                                      !.response = Some(Answer("MISS", r)),
                                                      !.last = TRUE]
                                ELSE IF slots[d].payload # None
                                        /\ key_of(Unwrap(slots[d].payload)) = key
                                THEN [slots[d] EXCEPT !.last = FALSE]
                                ELSE slots[d]]
           ELSE /\ UNCHANGED cacheVars
                /\ slots' = [slots EXCEPT ![c].pc = "responded",
                                          ![c].response = Some(Internal)]
    /\ SlotFrame

\* the connection is dropped while the handler waits for the engine or is
\* about to call cache.set
SlotCancel(c) ==
    /\ slots[c].pc \in {"simulating", "returned"}
    /\ slots' = [slots EXCEPT ![c].pc = "cancelled"]
    /\ UNCHANGED cacheVars
    /\ SlotFrame

---------------------------------------------------------------------------
(* Specifications *)

InitProgram(ps) ==
    /\ states = new(ps)
    /\ now = 0
    /\ failsSince = [i \in 1..Len(ps) |-> 0]
    /\ lastFailAt = [i \in 1..Len(ps) |-> None]
    /\ lastCall = Call("new", "", 0)
    /\ pc = "idle"
    /\ providers = <<>>
    /\ it = 0
    /\ last_error = None
    /\ result = None
    /\ contacted = <<>>
    /\ lastResp = None
    /\ request = None
    /\ sim = None
    /\ inner = EmptyMap
    /\ others = 0
    /\ hits = 0
    /\ misses = 0
    /\ lastOp = NoOp
    /\ lastSet = EmptyMap
    /\ hpc = "idle"
    /\ payload = None
    /\ response = None
    /\ rules = InsightsEngine_new
    /\ pool = NoPool
    /\ poolCall = NoPoolCall
    /\ calls = NoCalls
    /\ batch = NoBatch
    /\ slots = NoSlots

InitWith(ps) ==
    /\ InitProgram(ps)
    /\ arg = None
    /\ ret = None

\* the registry of the breaker tests: two providers, no dispatch running
Init == InitWith(SubSeq(Providers, 1, 2))

Next ==
    \/ \E url \in Urls : ReportSuccess(url)
    \/ \E url \in Urls : ReportFailure(url)
    \/ \E resps \in [ProviderIdx -> ProbeResponses] : RunHealthChecks(resps)
    \/ Tick

Spec == Init /\ [][Next]_vars

\* the engine over a registry of three providers, one dispatch after another
InitFailover == InitWith(Providers)

NextFailover ==
    \/ SimulateStart
    \/ \E resp \in Responses : Attempt(resp)
    \/ Finish
    \/ Tick

SpecFailover == InitFailover /\ [][NextFailover]_vars

\* simulate_from_contract_id over a registry of two providers
InitSimulate == InitWith(SubSeq(Providers, 1, 2))

NextSimulate ==
    \/ \E req \in Requests : SimulateFromContractId(req)
    \/ \E resp \in Responses : Attempt(resp)
    \/ Return
    \/ Tick

SpecSimulate == InitSimulate /\ [][NextSimulate]_vars

\* the cache on its own
InitCache == InitWith(<<>>)

NextCache ==
    \/ \E key \in CacheKeys : Get(key)
    \/ \E key \in CacheKeys, value \in CacheValues : Set(key, value)
    \/ SetOther
    \/ CacheTick

SpecCache == InitCache /\ [][NextCache]_vars

\* the analyze handler, one request after another, over one provider
InitAnalyze == InitWith(SubSeq(Providers, 1, 1))

NextAnalyze ==
    \/ \E p \in Payloads : Analyze(p)
    \/ AnalyzeSimulate
    \/ \E resp \in Responses : Attempt(resp)
    \/ Return
    \/ AnalyzeFinish
    \/ CacheTick

SpecAnalyze == InitAnalyze /\ [][NextAnalyze]_vars

\* the analyze handler with requests that are dropped before they answer
NextCancel ==
    \/ \E p \in Payloads : Analyze(p)
    \/ AnalyzeSimulate
    \/ \E resp \in Responses : Attempt(resp)
    \/ Return
    \/ AnalyzeFinish
    \/ AnalyzeCancel
    \/ CacheTick

SpecCancel == InitAnalyze /\ [][NextCancel]_vars

\* generate_key on each input of the model
InitKey ==
    /\ InitProgram(<<>>)
    /\ arg \in {Some(x) : x \in KeyInputs}
    /\ ret = None

NextKey == Hash

SpecKey == InitKey /\ [][NextKey]_vars

\* the metrics of each request and node result of the model
InitMetrics ==
    /\ InitProgram(<<>>)
    /\ arg \in {Some(x) : x \in MetricsInputs}
    /\ ret = None

NextMetrics == Measure

SpecMetrics == InitMetrics /\ [][NextMetrics]_vars

\* the insights engine: rules are added, records are analysed
InitInsights ==
    /\ InitProgram(<<>>)
    /\ arg = Some(Calls(<<>>, None))
    /\ ret = None

NextInsights ==
    \/ \E rule \in CustomRules : AddRule(rule)
    \/ \E resources \in InsightResources : Analyse(resources)

SpecInsights == InitInsights /\ [][NextInsights]_vars

\* the liquidity pool contract, from its deployment on
InitPool == InitWith(<<>>)

NextPool ==
    \/ Initialize
    \/ \E fee_bps \in FeeArgs, auth \in BOOLEAN : SetFee(fee_bps, auth)
    \/ \E paused \in BOOLEAN, auth \in BOOLEAN : SetPaused(paused, auth)
    \/ \E amounts \in DepositAmounts, host \in HostOutcomes : Deposit("U1", amounts, host)
    \/ \E buy_a \in BOOLEAN, out \in SwapOuts, limit \in SwapLimits :
            Swap("U2", buy_a, out, limit[1], limit[2])
    \/ \E share_amount \in ShareAmounts, host \in HostOutcomes :
            Withdraw("U1", share_amount, host)
    \/ \E amount \in ShareAmounts, auth \in BOOLEAN : Burn("U1", amount, auth)
    \/ \E from \in PoolUsers, to \in PoolUsers, amount \in TransferAmounts, auth \in BOOLEAN :
            Transfer(from, to, amount, auth)

SpecPool == InitPool /\ [][NextPool]_vars

\* compare on every record and pair of presets of the model
InitCompare ==
    /\ InitProgram(<<>>)
    /\ arg \in {Some(x) : x \in CompareInputs}
    /\ ret = None

NextCompare == Compare

SpecCompare == InitCompare /\ [][NextCompare]_vars

\* the argument parser on one JSON value
InitParser ==
    /\ InitProgram(<<>>)
    /\ arg \in {Some(x) : x \in ParserInputs}
    /\ ret = None

NextParser == Parse

SpecParser == InitParser /\ [][NextParser]_vars

\* the pool as the token of its shares: no swap, no fee, no pause
NextShares ==
    \/ Initialize
    \/ \E amounts \in DepositAmounts, host \in HostOutcomes : Deposit("U1", amounts, host)
    \/ \E share_amount \in ShareAmounts, host \in HostOutcomes :
            Withdraw("U1", share_amount, host)
    \/ \E amount \in ShareAmounts, auth \in BOOLEAN : Burn("U1", amount, auth)
    \/ \E from \in PoolUsers, to \in PoolUsers, amount \in TransferAmounts, auth \in BOOLEAN :
            Transfer(from, to, amount, auth)
    \/ \E amount \in AllowanceAmounts, expiration_ledger \in ExpirationLedgers, auth \in BOOLEAN :
            Approve("U1", "U2", amount, expiration_ledger, auth)
    \/ \E to \in PoolUsers, amount \in TransferAmounts, sequence \in LedgerSequences,
          host \in HostOutcomes :
            TransferFrom("U2", "U1", to, amount, sequence, host)

SpecShares == InitPool /\ [][NextShares]_vars

\* concurrent callers of the registry of one provider
InitRace == InitWith(SubSeq(Providers, 1, 1))

NextRace ==
    \/ \E t \in Callers, op \in SuccessOps, ledger \in Ledgers : CounterStore(t, op, ledger)
    \/ \E t \in Callers, op \in FailureOps : CounterAdd(t, op)
    \/ \E t \in Callers : TrippedWrite(t)
    \/ Tick

SpecRace == InitRace /\ [][NextRace]_vars

\* analyze requests served at the same time over one cache; requests that
\* overlap are served within one step of the clock, which is half the TTL
InitConcurrent == InitWith(SubSeq(Providers, 1, 1))

NextConcurrent ==
    \/ \E c \in Connections, p \in Payloads : SlotGet(c, p)
    \/ \E c \in Connections, r \in UNION {EngineReturns(p) : p \in Payloads} : SlotEngine(c, r)
    \/ \E c \in Connections : SlotFinish(c)
    \/ \E c \in Connections : SlotCancel(c)

SpecConcurrent == InitConcurrent /\ [][NextConcurrent]_vars

---------------------------------------------------------------------------
(* Properties of the registry (checked under Spec) *)

\* the providers in construction order
Construction == [i \in ProviderIdx |-> states[i].provider]

RECURSIVE IsSubseq(_, _)
\* s can be had from t by deleting elements
IsSubseq(s, t) ==
    IF s = <<>> THEN TRUE
    ELSE IF t = <<>> THEN FALSE
    ELSE IF Head(s) = Head(t) THEN IsSubseq(Tail(s), Tail(t))
    ELSE IsSubseq(s, Tail(t))

(* C1: a provider that has seen 1 or 2 failures in a row since its last    *)
(* success is in healthy_providers(); right after the 3rd failure in a row *)
(* it is not; a provider that has seen none is present whatever happened   *)
(* to the others.                                                          *)
C1_TripsAtThreshold ==
    \A i \in ProviderIdx :
        /\ failsSince[i] \in {1, 2} => InHealthy(i)
        /\ (failsSince[i] = 3 /\ lastFailAt[i] = Some(now)) => ~InHealthy(i)
        /\ failsSince[i] = 0 => InHealthy(i)

\* [A,B]: three report_failure(A) in a row just made, healthy_providers() = [B]
C1_Witness ==
    /\ lastCall.op = "report_failure"
    /\ lastCall.url = states[1].provider.url
    /\ lastCall.before = 2
    /\ failsSince[1] = 3
    /\ lastFailAt[1] = Some(now)
    /\ failsSince[2] = 0
    /\ Healthy = <<states[2].provider>>

(* C2: after report_success(p.url), whatever p's state was, p has          *)
(* consecutive_failures = 0 and no tripped_at and is in                    *)
(* healthy_providers(); and it stays there until it has seen 3 failures in *)
(* a row.                                                                  *)
C2_SuccessClears ==
    \A i \in ProviderIdx :
        /\ (lastCall.op = "report_success" /\ lastCall.url = states[i].provider.url)
              => /\ states[i].consecutive_failures = 0
                 /\ states[i].tripped_at = None
                 /\ InHealthy(i)
        /\ failsSince[i] < 3 => (states[i].tripped_at = None /\ InHealthy(i))

\* report_success on a tripped provider, before any cool-down can have elapsed
C2_Witness ==
    /\ lastCall.op = "report_success"
    /\ lastCall.url = states[1].provider.url
    /\ lastCall.before = 3
    /\ now < CIRCUIT_BREAKER_COOLDOWN
    /\ states[1].consecutive_failures = 0
    /\ InHealthy(1)

(* C3: a provider that has seen 3 or more failures in a row, the last at   *)
(* instant f, is out of healthy_providers() while now - f < 5 min and in   *)
(* it once now - f >= 5 min, with nothing but the clock moving.            *)
C3_CooldownLazy ==
    \A i \in ProviderIdx :
        failsSince[i] >= 3 =>
            /\ lastFailAt[i] # None
            /\ InHealthy(i) <=> (now - Unwrap(lastFailAt[i]) >= CIRCUIT_BREAKER_COOLDOWN)

\* still tripped in the registry, failure counter untouched, and back in the list
C3_Witness ==
    /\ lastCall.op = "report_failure"
    /\ lastCall.url = states[1].provider.url
    /\ failsSince[1] = 3
    /\ states[1].consecutive_failures = 3
    /\ states[1].tripped_at # None
    /\ now - Unwrap(lastFailAt[1]) >= CIRCUIT_BREAKER_COOLDOWN
    /\ InHealthy(1)

(* C4: healthy_providers() is always a subsequence of the construction     *)
(* order, and on the registry as new() built it, it is the whole list.     *)
C4_PriorityOrder ==
    /\ IsSubseq(Healthy, Construction)
    /\ states = new(Construction) => Healthy = Construction

\* the first provider is out, the second still listed, after a health check round
C4_Witness ==
    /\ lastCall.op = "run_health_checks"
    /\ Len(Healthy) = 1
    /\ Healthy[1] = states[2].provider

---------------------------------------------------------------------------
(* Properties of the failover dispatch (checked under SpecFailover) *)

\* the request met a result
Succeeded(resp) == resp.t = "http" /\ is_success(resp.status) /\ resp.body = "result"

\* the request met a non-2xx status
HttpError(resp) == resp.t = "http" /\ ~is_success(resp.status)

\* the request met a JSON-RPC error with this code
RpcErrorCode(resp, code) ==
    resp.t = "http" /\ is_success(resp.status) /\ resp.body = "error" /\ resp.code = code

\* the request met the engine's timeout or a failure of send()
TransportFailure(resp) == resp.t \in {"elapsed", "send_error"}

\* retryable as section 7 of the specification classifies failures
SpecRetryable(resp) ==
    \/ TransportFailure(resp)
    \/ HttpError(resp) /\ (resp.status = 429 \/ resp.status >= 500)
    \/ RpcErrorCode(resp, -32603)

\* a provider of the list is still untried
MoreToTry == Len(contacted) < Len(providers)

(* C5: requests go to the healthy providers in priority order, one at a    *)
(* time; a further provider is contacted only when the request before it   *)
(* failed with a retryable error; the first success is what is returned,   *)
(* and nothing is contacted after it.                                      *)
C5_Order ==
    /\ IsSubseq(providers, Construction)
    /\ Len(contacted) <= Len(providers)
    /\ \A k \in 1..Len(contacted) : contacted[k] = providers[k].url
    /\ (lastResp # None /\ Succeeded(Unwrap(lastResp)))
          => /\ pc = "done"
             /\ result = Some(Ok(Unwrap(lastResp).ledger))
    /\ (result # None /\ Unwrap(result).ok)
          => (lastResp # None /\ Succeeded(Unwrap(lastResp)))

C5_Step ==
    (Len(contacted') > Len(contacted))
        => /\ contacted' = Append(contacted, providers[Len(contacted) + 1].url)
           /\ providers' = providers
           /\ Len(contacted) > 0
                 => (lastResp # None /\ SpecRetryable(Unwrap(lastResp)))

(* C5: in every state the requests sent follow the priority order and the  *)
(* first success is the result (C5_Order), and every step that sends a     *)
(* request sends it to the next provider after a retryable failure         *)
(* (C5_Step).                                                              *)
C5_FailoverInOrder == []C5_Order /\ [][C5_Step]_vars

\* two providers failed, the third answered: its result is returned
C5_Witness ==
    /\ pc = "done"
    /\ Len(providers) = 3
    /\ Len(contacted) = 3
    /\ result # None
    /\ Unwrap(result).ok

(* C6: when a provider answers with JSON-RPC error -32602 the dispatch is  *)
(* over: it returns NodeError("Invalid parameters: ...") and no further    *)
(* provider is sent a request.                                             *)
C6_InvalidParamsStops ==
    (lastResp # None /\ RpcErrorCode(Unwrap(lastResp), -32602))
        => /\ pc = "done"
           /\ result = Some(Failed(NodeError(<<"Invalid", "parameters:">> \o RpcMessage)))

\* the first of three healthy providers answered -32602; only it was contacted
C6_Witness ==
    /\ pc = "done"
    /\ Len(providers) = 3
    /\ contacted = <<providers[1].url>>
    /\ lastResp # None
    /\ RpcErrorCode(Unwrap(lastResp), -32602)

(* C7: a non-2xx response with providers left to try sends the dispatch on *)
(* to the next provider exactly when the status is 429 or >= 500.          *)
C7_HttpRetryable ==
    (lastResp # None /\ HttpError(Unwrap(lastResp)) /\ MoreToTry)
        => (pc = "loop" <=> (Unwrap(lastResp).status = 429 \/ Unwrap(lastResp).status >= 500))

(* C8: a JSON-RPC error -32603 with providers left to try sends the        *)
(* dispatch on to the next provider.                                       *)
C8_InternalErrorRetryable ==
    (lastResp # None /\ RpcErrorCode(Unwrap(lastResp), -32603) /\ MoreToTry)
        => pc = "loop"

(* C9: a timeout or any failure of send() with providers left to try sends *)
(* the dispatch on to the next provider.                                   *)
C9_TransportRetryable ==
    (lastResp # None /\ TransportFailure(Unwrap(lastResp)) /\ MoreToTry)
        => pc = "loop"

(* C10: a dispatch that finds no healthy provider returns the 'all         *)
(* providers unavailable' error and sends nothing; one that ends on a      *)
(* failed request returns the error of that, the last, request.            *)
C10_Exhausted ==
    /\ (pc # "idle" /\ providers = <<>>)
          => /\ pc = "done"
             /\ contacted = <<>>
             /\ result = Some(Failed(AllUnavailable))
    /\ (pc = "done" /\ lastResp # None /\ ~Succeeded(Unwrap(lastResp)))
          => result = Some(Failed(simulate_transaction_single(Unwrap(lastResp)).err))

\* all three providers tried, each failed with a timeout or connect error
C10_Witness ==
    /\ pc = "done"
    /\ Len(providers) = 3
    /\ Len(contacted) = 3
    /\ last_error # None
    /\ lastResp # None
    /\ should_retry(simulate_transaction_single(Unwrap(lastResp)).err)
    /\ result = Some(Failed(Unwrap(last_error)))

---------------------------------------------------------------------------
(* Health updates of a dispatch (checked under SpecFailover) *)

\* a request was sent in this step
Sent == Len(contacted') = Len(contacted) + 1

\* the provider the request of this step went to
SentTo == Named(contacted'[Len(contacted')])

\* provider i got one report_success
OneSuccess(i) ==
    /\ states'[i].consecutive_failures = 0
    /\ states'[i].tripped_at = None
    /\ states'[i].latest_ledger = states[i].latest_ledger

\* provider i got one report_failure
OneFailure(i) ==
    /\ states'[i].consecutive_failures = states[i].consecutive_failures + 1
    /\ states'[i].tripped_at \in {states[i].tripped_at, Some(now)}
    /\ states'[i].latest_ledger = states[i].latest_ledger

C11_Step ==
    IF Sent
    THEN /\ SentTo # {}
         /\ \A i \in ProviderIdx :
               IF i \in SentTo
               THEN IF Succeeded(Unwrap(lastResp')) THEN OneSuccess(i) ELSE OneFailure(i)
               ELSE states'[i] = states[i]
    ELSE states' = states

(* C11: in a failover dispatch every provider a request is sent to gets    *)
(* exactly one health update, a report_success if the request succeeded    *)
(* and a report_failure if not, whichever way the dispatch then ends; a    *)
(* provider no request is sent to gets none, and no step that sends no     *)
(* request changes the registry.                                           *)
C11_OneUpdatePerAttempt == [][C11_Step]_vars

\* a dispatch that ended on the second of three providers: two updated, one not
C11_Witness ==
    /\ pc = "done"
    /\ Len(providers) = 3
    /\ Len(contacted) = 2
    /\ ~Unwrap(result).ok
    /\ states[1].consecutive_failures = 1
    /\ states[2].consecutive_failures = 1
    /\ states[3] = new(Providers)[3]

---------------------------------------------------------------------------
(* Validation before the RPC (checked under SpecSimulate) *)

\* the contract id is empty or is not a C-prefixed contract address
BadContractId(req) ==
    \/ req.contract_id = <<>>
    \/ req.contract_id[1] # "C"
    \/ req.contract_id \notin ContractStrkeys

\* one of the arguments cannot be parsed
BadArgument(req) == \E i \in 1..Len(req.args) : ~parse_sc_val_arg(req.args[i]).ok

Rejected(req) == BadContractId(req) \/ BadArgument(req)

C12_State ==
    (request # None /\ Rejected(Unwrap(request))) =>
        /\ pc = "idle"
        /\ contacted = <<>>
        /\ sim # None
        /\ ~Unwrap(sim).ok
        /\ Unwrap(request).contract_id = <<>> =>
              Unwrap(sim).err = NodeError(<<"Contract", "ID", "cannot", "be", "empty">>)

C12_Step ==
    (request' # None /\ Rejected(Unwrap(request'))) =>
        /\ states' = states
        /\ contacted' = <<>>

(* C12: a simulate call whose contract id is empty or not a C-prefixed     *)
(* contract address, or with an argument that does not parse, returns an   *)
(* error without a dispatch being started: no request is sent and no       *)
(* provider's state changes; for the empty id the error is                 *)
(* NodeError("Contract ID cannot be empty").                               *)
C12_FailsBeforeRpc == []C12_State /\ [][C12_Step]_vars

\* rejected calls on both paths, over a registry that has seen failures
C12_Witness ==
    /\ request # None
    /\ BadArgument(Unwrap(request))
    /\ ~BadContractId(Unwrap(request))
    /\ takes_local_path(Unwrap(request))
    /\ sim # None
    /\ Unwrap(sim).err = ParseError
    /\ states[1].consecutive_failures = 2

---------------------------------------------------------------------------
(* The fingerprint (checked under SpecKey) *)

(* C16: generate_key gives the same fingerprint whenever it is applied to  *)
(* the same input, and two inputs that differ in contract_id,              *)
(* function_name or args are hashed from different pre-images, so they get *)
(* different fingerprints.                                                 *)
C16_DistinctFingerprints ==
    ret # None =>
        /\ Unwrap(ret) = key_of(Unwrap(arg))
        /\ \A other \in KeyInputs :
              other # Unwrap(arg) =>
                  /\ pre_image(other.contract_id, other.function_name, other.args)
                        # Unwrap(ret).sha256
                  /\ key_of(other) # Unwrap(ret)

---------------------------------------------------------------------------
(* The metrics record (checked under SpecMetrics) *)

\* the keys of the footprint the node returned
FootprintKeys(rpc_result) ==
    IF rpc_result.transaction_data.decodes
    THEN {rpc_result.transaction_data.read_only[i] :
             i \in DOMAIN rpc_result.transaction_data.read_only}
         \cup {rpc_result.transaction_data.read_write[i] :
                 i \in DOMAIN rpc_result.transaction_data.read_write}
    ELSE {}

(* C18: on the local-override path the state_dependency list of the        *)
(* result holds an Injected entry for every override key and a Live entry  *)
(* for every key of the footprint the node returned that is not an         *)
(* override key.                                                           *)
C18_InjectedAndLive ==
    (ret # None /\ takes_local_path(Unwrap(arg).req)) =>
        LET overrides == Unwrap(Unwrap(arg).req.ledger_overrides)
            deps      == Unwrap(ret).state_dependency
        IN  /\ deps # None
            /\ \A k \in DOMAIN overrides :
                  StateDependency(k, "Injected") \in Unwrap(deps)
            /\ \A k \in FootprintKeys(Unwrap(arg).rpc_result) \ DOMAIN overrides :
                  StateDependency(k, "Live") \in Unwrap(deps)

(* C19: cost_stroops of every result is cpu/10000 + ram/1024 +             *)
(* (read+write)/1024 + tx_size/1024 in integer division, the value         *)
(* protocol_21().calculate_cost gives for the same resources.              *)
C19_CostFormula ==
    ret # None =>
        LET r == Unwrap(ret).resources
        IN  /\ Unwrap(ret).cost_stroops =
                  r.cpu_instructions \div 10000 + r.ram_bytes \div 1024
                  + (r.ledger_read_bytes + r.ledger_write_bytes) \div 1024
                  + r.transaction_size_bytes \div 1024
            /\ Unwrap(ret).cost_stroops = config_calculate_cost(protocol_21, r)

(* C20: transaction_size_bytes of every result is the number of bytes of   *)
(* the invocation envelope that was sent, in its XDR encoding.             *)
C20_EnvelopeSize ==
    ret # None =>
        Unwrap(ret).resources.transaction_size_bytes =
            envelope_xdr_len(Unwrap(arg).req.function_name, Unwrap(arg).req.args)

---------------------------------------------------------------------------
(* The cache (checked under SpecCache) *)

\* the key of the last cache call, when it was a call on a followed key
LastKey == Unwrap(lastOp.key)

LastGet == lastOp.op = "get"

C13_State ==
    /\ (LastGet /\ lastOp.returned # None) =>
          hits = lastOp.hits + 1 /\ misses = lastOp.misses
    /\ (LastGet /\ lastOp.returned = None) =>
          hits = lastOp.hits /\ misses = lastOp.misses + 1
    /\ lastOp.op = "set" => hits = lastOp.hits /\ misses = lastOp.misses
    /\ (/\ LastGet
        /\ LastKey \in DOMAIN lastSet
        /\ LastKey \in DOMAIN inner
        /\ lastOp.at - lastSet[LastKey].at < CACHE_TTL_SECS) =>
          lastOp.returned = Some(lastSet[LastKey].value)

C13_Step == hits' >= hits /\ misses' >= misses

(* C13: a get adds one to hits and leaves misses when it returns a value,  *)
(* adds one to misses and leaves hits when it returns none; a set changes  *)
(* neither counter; no step lowers a counter; a get of a key that was set, *)
(* is still stored and is younger than the time to live returns the value  *)
(* of the last set of that key.                                            *)
C13_Counters == []C13_State /\ [][C13_Step]_vars

\* a miss, then a second set of the key, then a hit that returns the second value
C13_Witness ==
    /\ LastGet
    /\ hits = 1
    /\ misses = 1
    /\ LastKey \in DOMAIN lastSet
    /\ lastSet[LastKey].at = CacheTickSecs
    /\ lastOp.at = 2 * CacheTickSecs
    /\ lastOp.returned = Some(lastSet[LastKey].value)
    /\ Cardinality(DOMAIN inner) = 2

(* C17: the cache never holds more than 1000 entries, and a get never      *)
(* returns a value more than 3600 seconds after the set that stored it.    *)
C17_Bounded ==
    /\ entry_count(inner, others) <= CACHE_MAX_CAPACITY
    /\ (LastGet /\ lastOp.returned # None) =>
          /\ LastKey \in DOMAIN lastSet
          /\ lastOp.returned = Some(lastSet[LastKey].value)
          /\ lastOp.at - lastSet[LastKey].at <= CACHE_TTL_SECS

\* a full cache, and a get that finds its key stored but 3600 seconds old
C17_Witness ==
    /\ entry_count(inner, others) = CACHE_MAX_CAPACITY
    /\ LastGet
    /\ lastOp.returned = None
    /\ LastKey \in DOMAIN inner
    /\ lastOp.at - inner[LastKey].at = CACHE_TTL_SECS

---------------------------------------------------------------------------
(* The analyze handler (checked under SpecAnalyze) *)

Responded == hpc = "responded"

Tagged(tag) == Unwrap(response).cache = Some(tag)

\* the fingerprint of the request being served
Fingerprint == key_of(Unwrap(payload))

\* the last cache call was the get of this request, and it returned a value
GetReturned ==
    /\ LastGet
    /\ lastOp.key = Some(Fingerprint)
    /\ lastOp.returned # None

\* the engine was invoked for this request and returned Ok
EngineSucceeded ==
    /\ request = payload
    /\ sim # None
    /\ Unwrap(sim).ok

\* the last cache call stored the engine's result under the fingerprint
StoredResult ==
    /\ lastOp.op = "set"
    /\ lastOp.key = Some(Fingerprint)
    /\ lastOp.returned = sim
    /\ lastSet[Fingerprint] = Entry(Unwrap(sim), lastOp.at)
    /\ inner[Fingerprint] = Entry(Unwrap(sim), lastOp.at)

(* C14: the handler answers HIT exactly when cache.get of the request's    *)
(* fingerprint returned a value, and then the engine is not invoked and    *)
(* the body is the report of the cached value; it answers MISS exactly     *)
(* when the engine was invoked and returned Ok, and then the result is     *)
(* stored under the fingerprint; every 200 response carries HIT or MISS;   *)
(* the engine runs only after a get that returned nothing.                 *)
C14_HitOrMiss ==
    /\ Responded =>
          /\ Tagged("HIT") <=> GetReturned
          /\ Tagged("HIT") =>
                /\ request = None
                /\ response = Some(Answer("HIT", Unwrap(lastOp.returned)))
          /\ Tagged("MISS") <=> EngineSucceeded
          /\ Tagged("MISS") =>
                /\ StoredResult
                /\ response = Some(Answer("MISS", Unwrap(sim)))
          /\ Unwrap(response).status = 200 => (Tagged("HIT") \/ Tagged("MISS"))
    /\ hpc \in {"miss", "simulating"} =>
          /\ LastGet
          /\ lastOp.key = Some(Fingerprint)
          /\ lastOp.returned = None
          /\ response = None

\* a HIT served from the entry that an earlier MISS of the same fingerprint stored
C14_Witness ==
    /\ Responded
    /\ Tagged("HIT")
    /\ request = None
    /\ hits = 1
    /\ misses = 1
    /\ Fingerprint \in DOMAIN lastSet
    /\ lastOp.returned = Some(lastSet[Fingerprint].value)

(* C15: a 200 response to a request with a non-empty ledger_overrides map  *)
(* carries a state_dependency list, whatever was served before it, and a   *)
(* 200 response to a request without overrides carries none.               *)
C15_DependenciesFollowOverrides ==
    (Responded /\ Unwrap(response).status = 200) =>
        (takes_local_path(Unwrap(payload))
            <=> Unwrap(response).body.state_dependency # None)

---------------------------------------------------------------------------
(* Error mapping of the analyze handler (checked under SpecAnalyze) *)

\* the engine refused the request during validation, before any RPC
FailedValidation ==
    /\ Responded
    /\ Rejected(Unwrap(payload))
    /\ request = payload
    /\ sim # None
    /\ ~Unwrap(sim).ok

(* C21: an analyze request that fails because of a validation or an        *)
(* argument-parse error is answered with a 400-class HTTP status.          *)
C21_ValidationIs400Class ==
    FailedValidation => Unwrap(response).status \in 400..499

---------------------------------------------------------------------------
(* One round of the health checker (checked under Spec) *)

\* the last update of the registry was a round of the health checker
AfterRound == lastCall.op = "run_health_checks"

\* the probe of the provider at i ended in Ok(sequence)
ProbeOk(i) == lastCall.probes[i].t = "sequence"

\* the provider at i was tripped when the round began, its cool-down not over
WasCooling(i) ==
    /\ lastCall.registry[i].tripped_at # None
    /\ lastCall.at - Unwrap(lastCall.registry[i].tripped_at) < CIRCUIT_BREAKER_COOLDOWN

(* C22: after one round of the health checker, every provider whose probe  *)
(* succeeded has consecutive_failures = 0, no tripped_at and the probed    *)
(* sequence as latest_ledger, so it is listed again even if its cool-down  *)
(* had not ended; every provider whose probe failed has its counter one    *)
(* higher and is tripped if the new count is >= 3; tripped providers are   *)
(* probed as the others are.                                               *)
C22_HealthRound ==
    AfterRound =>
        \A i \in ProviderIdx :
            LET old == lastCall.registry[i]
            IN  IF ProbeOk(i)
                THEN /\ states[i].consecutive_failures = 0
                     /\ states[i].tripped_at = None
                     /\ states[i].latest_ledger = lastCall.probes[i].ledger
                     /\ InHealthy(i)
                ELSE /\ states[i].consecutive_failures = old.consecutive_failures + 1
                     /\ states[i].latest_ledger = old.latest_ledger
                     /\ old.consecutive_failures + 1 >= 3
                            => states[i].tripped_at = Some(lastCall.at)
                     /\ old.consecutive_failures + 1 < 3
                            => states[i].tripped_at = old.tripped_at

\* a cooling provider came back in the round in which the other one was tripped
C22_Witness ==
    /\ AfterRound
    /\ WasCooling(1)
    /\ ProbeOk(1)
    /\ InHealthy(1)
    /\ ~ProbeOk(2)
    /\ lastCall.registry[2].tripped_at = None
    /\ states[2].tripped_at # None

---------------------------------------------------------------------------
(* Properties of the insights engine (checked under SpecInsights) *)

\* a record was analysed by the engine as it stands
Analysed == ret # None

Report == Unwrap(ret)

Analysed_resources == Unwrap(Unwrap(arg).resources)

Findings == Report.insights

CountOf(severity) ==
    Cardinality({i \in 1..Len(Findings) : Findings[i].severity = severity})

cpu_penalty(r) ==
    IF r.cpu_instructions > 50000000 THEN 10
    ELSE IF r.cpu_instructions > 10000000 THEN 5 ELSE 0

ram_penalty(r) ==
    IF r.ram_bytes > 20 * 1024 * 1024 THEN 10
    ELSE IF r.ram_bytes > 5 * 1024 * 1024 THEN 5 ELSE 0

ledger_penalty(r) ==
    IF r.ledger_read_bytes + r.ledger_write_bytes > 100 * 1024 THEN 10
    ELSE IF r.ledger_read_bytes + r.ledger_write_bytes > 50 * 1024 THEN 5 ELSE 0

\* the score before it is clamped
RawScore ==
    100 - 20 * CountOf("Critical") - 10 * CountOf("Warning") - 3 * CountOf("Info")
        - cpu_penalty(Analysed_resources) - ram_penalty(Analysed_resources)
        - ledger_penalty(Analysed_resources)

BelowAllThresholds(r) ==
    cpu_penalty(r) = 0 /\ ram_penalty(r) = 0 /\ ledger_penalty(r) = 0

(* C23: for every record and every list of findings, those of added rules  *)
(* included, efficiency_score is 100 - 20*criticals - 10*warnings -        *)
(* 3*infos - cpu_penalty - ram_penalty - ledger_penalty clamped to         *)
(* [0,100]; a record below all thresholds with no findings scores 100.     *)
C23_EfficiencyScore ==
    Analysed =>
        /\ Report.efficiency_score \in 0..100
        /\ RawScore < 0 => Report.efficiency_score = 0
        /\ RawScore > 100 => Report.efficiency_score = 100
        /\ RawScore \in 0..100 => Report.efficiency_score = RawScore
        /\ (Findings = <<>> /\ BelowAllThresholds(Analysed_resources))
                => Report.efficiency_score = 100

\* findings and penalties that take the score below zero: it is reported as 0
C23_Witness ==
    /\ Analysed
    /\ RawScore < 0
    /\ Report.efficiency_score = 0
    /\ CountOf("Critical") >= 4

\* the rules in registration order: the built-in ones, then those of add_rule calls
Registered == InsightsEngine_new \o Unwrap(arg).added

\* what the rule registered at position i returns for the analysed record
FindingsOf(i) == evaluate(Registered[i], Analysed_resources)

RECURSIVE FindingsFrom(_)
FindingsFrom(i) ==
    IF i > Len(Registered) THEN <<>> ELSE FindingsOf(i) \o FindingsFrom(i + 1)

BuiltInPositions == 1..Len(InsightsEngine_new)

\* the findings are those of the rules, rule after rule in registration order
InRegistrationOrder == Findings = FindingsFrom(1)

AtMostOnePerBuiltIn == \A i \in BuiltInPositions : Len(FindingsOf(i)) <= 1

\* the findings of the rules at these positions carry the name of their rule
NamedAfterRule(positions) ==
    \A i \in positions : \A k \in 1..Len(FindingsOf(i)) :
        FindingsOf(i)[k].rule = rule_name(Registered[i])

(* C24 as stated: the findings are listed in rule registration order, each *)
(* built-in rule contributes at most one, and every finding's rule field   *)
(* is the name of the rule that produced it.                               *)
C24_Original ==
    Analysed =>
        /\ InRegistrationOrder
        /\ AtMostOnePerBuiltIn
        /\ NamedAfterRule(1..Len(Registered))

(* C24: the findings are listed in rule registration order (the four       *)
(* built-in rules, then the added rules in the order added), each built-in *)
(* rule contributes at most one finding, and the rule field of a built-in  *)
(* rule's finding is that rule's name; the rule field of an added rule's   *)
(* finding is what that rule wrote.                                        *)
C24_RegistrationOrder ==
    Analysed =>
        /\ InRegistrationOrder
        /\ AtMostOnePerBuiltIn
        /\ NamedAfterRule(BuiltInPositions)

\* two added rules after two built-in findings; the last finding names a rule
\* that did not produce it
C24_Witness ==
    /\ Analysed
    /\ Len(Registered) = 6
    /\ Len(FindingsOf(5)) = 2
    /\ Len(Findings) = 5
    /\ Findings[1].rule = "storage_efficiency"
    /\ Findings[2].rule = "memory_pressure"
    /\ Findings[3].message = "first"
    /\ Findings[5].rule = "storage_efficiency"
    /\ rule_name(Registered[6]) = "borrowed"

\* what storage_efficiency, the first rule, returns for the analysed record
StorageFindings == FindingsOf(1)

OneFinding(findings, severity) ==
    /\ Len(findings) = 1
    /\ findings[1].severity = severity
    /\ findings[1].rule = "storage_efficiency"

(* C25: storage_efficiency emits nothing when transaction_size_bytes = 0;  *)
(* otherwise exactly one Critical when ledger_write_bytes is more than     *)
(* twice transaction_size_bytes, exactly one Warning when it is more than  *)
(* transaction_size_bytes and at most twice it, and nothing when it is at  *)
(* most transaction_size_bytes.                                            *)
C25_StorageEfficiency ==
    Analysed =>
        LET w == Analysed_resources.ledger_write_bytes
            t == Analysed_resources.transaction_size_bytes
        IN  /\ t = 0 => StorageFindings = <<>>
            /\ (t # 0 /\ w > 2 * t) => OneFinding(StorageFindings, "Critical")
            /\ (t # 0 /\ t < w /\ w <= 2 * t) => OneFinding(StorageFindings, "Warning")
            /\ (t # 0 /\ w <= t) => StorageFindings = <<>>

\* writes of exactly twice the transaction size: one Warning, first in the report
C25_Witness ==
    /\ Analysed
    /\ Analysed_resources.transaction_size_bytes = 512
    /\ Analysed_resources.ledger_write_bytes = 1024
    /\ OneFinding(StorageFindings, "Warning")
    /\ Findings[1] = StorageFindings[1]

---------------------------------------------------------------------------
(* Properties of the cost comparison (checked under SpecCompare) *)

Compared == ret # None

Impact == Unwrap(ret)

BaselineCost == config_calculate_cost(Unwrap(arg).baseline, Unwrap(arg).resources)

ShadowCost == config_calculate_cost(Unwrap(arg).shadow, Unwrap(arg).resources)

\* the rational q is num/den
IsQuotient(q, num, den) ==
    /\ q.den > 0
    /\ den % q.den = 0
    /\ q.num * (den \div q.den) = num

(* C26: compare(r, baseline, shadow) returns diff = shadow cost - baseline *)
(* cost as a signed number and pct = diff / baseline cost * 100, with      *)
(* pct = 0 when the baseline cost is 0; for identical schedules diff = 0   *)
(* and pct = 0 for every r.                                                *)
C26_Compare ==
    Compared =>
        /\ Impact.baseline.cost_stroops = BaselineCost
        /\ Impact.shadow.cost_stroops = ShadowCost
        /\ Impact.cost_difference_stroops = ShadowCost - BaselineCost
        /\ BaselineCost # 0 =>
              IsQuotient(Impact.cost_change_pct,
                         Impact.cost_difference_stroops * 100, BaselineCost)
        /\ BaselineCost = 0 => Impact.cost_change_pct.num = 0
        /\ Unwrap(arg).baseline = Unwrap(arg).shadow =>
              /\ Impact.cost_difference_stroops = 0
              /\ Impact.cost_change_pct.num = 0

\* protocol_22 is cheaper than protocol_21 for this record: a negative difference
C26_Witness ==
    /\ Compared
    /\ Unwrap(arg).baseline = protocol_21
    /\ Unwrap(arg).shadow = protocol_22
    /\ Impact.cost_difference_stroops < 0
    /\ Impact.cost_change_pct.num < 0
    /\ Impact.cost_change_pct.den > 1

\* the baseline costs nothing and the shadow does: the change is reported as 0
C26_WitnessZeroBaseline ==
    /\ Compared
    /\ BaselineCost = 0
    /\ Impact.cost_difference_stroops > 0
    /\ Impact.cost_change_pct.num = 0

---------------------------------------------------------------------------
(* Properties of the argument parser (checked under SpecParser) *)

ParserCalled == arg \in {Some(x) : x \in ParserInputs} /\ ret # None

ParserInputValue == Unwrap(arg).value

ParserResult == Unwrap(ret)

KeyBytes(entry) == symbol_to_xdr(entry.key.s)

RECURSIVE MapsSorted(_)
\* every Map of the value, at any depth, has its keys strictly ascending by their XDR bytes
MapsSorted(val) ==
    CASE val.t = "Map" ->
            /\ \A i \in 1..(Len(val.entries) - 1) :
                   bytes_lt(KeyBytes(val.entries[i]), KeyBytes(val.entries[i + 1]))
            /\ \A i \in 1..Len(val.entries) : MapsSorted(val.entries[i].val)
      [] val.t = "Vec" -> \A i \in 1..Len(val.items) : MapsSorted(val.items[i])
      [] OTHER -> TRUE

\* C27: every Map the parser emits, at any nesting depth, has its entries
\* strictly ascending by the XDR bytes of the key (so no key occurs twice),
\* whatever the order of the members of the JSON object and whatever the
\* order in which serde_json iterates them.
C27_MapsSorted ==
    (ParserCalled /\ ParserResult.ok) => MapsSorted(ParserResult.val)

\* a nested object whose three members are listed in an order that is
\* neither the order of the key texts nor the order of the XDR bytes, parsed
\* to a Map inside a Map with the keys "a", "b", "aa" in that order
C27_Witness ==
    /\ ParserCalled
    /\ ParserResult.ok
    /\ Unwrap(arg).preserve_order
    /\ ParserInputValue.t = "Object"
    /\ Len(ParserInputValue.members) = 2
    /\ ParserInputValue.members[1][2].t = "Object"
    /\ Len(ParserInputValue.members[1][2].members) = 3
    /\ [i \in 1..3 |-> ParserInputValue.members[1][2].members[i][1]]
           = <<<<"a", "a">>, <<"b">>, <<"a">>>>
    /\ ParserResult.val.t = "Map"
    /\ ParserResult.val.entries[1].val.t = "Map"
    /\ Len(ParserResult.val.entries[1].val.entries) = 3
    /\ [i \in 1..3 |-> ParserResult.val.entries[1].val.entries[i].key.s]
           = <<<<"a">>, <<"b">>, <<"a", "a">>>>

\* the characters a Soroban symbol is made of
SymbolChars == {"a", "b", "h", "x", "A", "C", "G", "0", "1", "_"}

ColonString ==
    /\ ParserCalled
    /\ ParserInputValue.t = "String"
    /\ Len(ParserInputValue.s) >= 1
    /\ ParserInputValue.s[1] = ":"

ColonRest == Tail(ParserInputValue.s)

WellFormedSymbol(rest) ==
    /\ Len(rest) >= 1
    /\ Len(rest) <= SCSYMBOL_LIMIT
    /\ \A i \in 1..Len(rest) : rest[i] \in SymbolChars

\* C28: a string that starts with ':' parses to Symbol(rest) exactly when
\* rest is 1 to 32 characters of letters, digits and underscore, and fails
\* with InvalidSymbol otherwise (rest empty, too long, or with another
\* character).
C28_SymbolSyntax ==
    ColonString =>
        IF WellFormedSymbol(ColonRest)
        THEN ParserResult.ok /\ ParserResult.val = ScSymbol(ColonRest)
        ELSE ~ParserResult.ok /\ ParserResult.err.kind = "InvalidSymbol"

---------------------------------------------------------------------------
(* Properties of the liquidity pool (checked under SpecPool) *)

\* the entry points that begin with check_paused
PausableCalls == {"deposit", "swap", "withdraw", "burn"}

PoolLedger(st) == <<st.reserve_a, st.reserve_b, st.total_shares, st.balance>>

\* C29: while the paused flag is set, every deposit, swap, withdraw and burn
\* returns Error::Paused and leaves the reserves, the total shares and every
\* share balance as they were; when the flag is not set (again), none of
\* them is refused as Paused.
C29_Paused ==
    poolCall.op \in PausableCalls =>
        IF poolCall.before.paused
        THEN /\ ~poolCall.ok
             /\ ~poolCall.trapped
             /\ poolCall.err = "Paused"
             /\ PoolLedger(pool) = PoolLedger(poolCall.before)
        ELSE poolCall.err # "Paused"

\* a deposit was refused while the pool was paused, set_paused(false)
\* lifted the pause, and a deposit is accepted and mints shares
C29_Witness ==
    /\ poolCall.cycle = 2
    /\ poolCall.op = "deposit"
    /\ poolCall.ok
    /\ ~poolCall.before.paused
    /\ pool.total_shares # poolCall.before.total_shares

AcceptedSwap ==
    /\ poolCall.op = "swap"
    /\ poolCall.ok
    /\ ~poolCall.trapped

SwapReserveOut == IF poolCall.args[1] THEN poolCall.before.reserve_a ELSE poolCall.before.reserve_b

\* C30: every accepted swap with 0 < out < reserve_out, at a fee of 0 to 100
\* basis points, leaves reserve_a * reserve_b at least what it was before.
C30_SwapInvariant ==
    ( /\ AcceptedSwap
      /\ poolCall.args[2] > 0
      /\ poolCall.args[2] < SwapReserveOut
      /\ poolCall.before.fee_bps \in 0..100 )
        => pool.reserve_a * pool.reserve_b
               >= poolCall.before.reserve_a * poolCall.before.reserve_b

---------------------------------------------------------------------------
(* Properties of the pool's share token (checked under SpecShares) *)

RECURSIVE SumOfBalances(_, _)
SumOfBalances(st, ids) ==
    IF ids = {} THEN 0
    ELSE LET id == CHOOSE x \in ids : TRUE
         IN  balance(st, id) + SumOfBalances(st, ids \ {id})

ShareTransfers == {"transfer", "transfer_from"}

\* C31: after any sequence of deposit, withdraw, burn, transfer and
\* transfer_from calls, total_supply() is the sum of balance(id) over all
\* addresses, and a transfer or transfer_from leaves total_supply as it was.
C31_SupplyIsSum ==
    /\ total_supply(pool) = SumOfBalances(pool, PoolUsers)
    /\ poolCall.op \in ShareTransfers => total_supply(pool) = total_supply(poolCall.before)

\* shares were minted and a transfer_from moved some of them to the other holder
C31_Witness ==
    /\ poolCall.op = "transfer_from"
    /\ poolCall.ok
    /\ total_supply(pool) > 0
    /\ balance(pool, "U2") > 0
    /\ balance(pool, "U2") # balance(poolCall.before, "U2")

\* the holder a call takes shares from, and how many
TakenFrom ==
    CASE poolCall.op = "withdraw" -> <<poolCall.args[1], poolCall.args[2]>>
      [] poolCall.op = "burn" -> <<poolCall.args[1], poolCall.args[2]>>
      [] poolCall.op = "transfer" -> <<poolCall.args[1], poolCall.args[3]>>
      [] poolCall.op = "transfer_from" -> <<poolCall.args[2], poolCall.args[4]>>

\* C40: whatever the amounts of deposit, withdraw, burn, transfer and
\* transfer_from (negative ones included), no holder has a negative share
\* balance and total_supply is not negative; a call that would take more
\* shares than the holder owns fails and changes nothing.
C40_NoNegativeShares ==
    /\ \A id \in PoolUsers : balance(pool, id) >= 0
    /\ total_supply(pool) >= 0
    /\ ( /\ poolCall.op \in {"withdraw", "burn", "transfer", "transfer_from"}
         /\ TakenFrom[2] > balance(poolCall.before, TakenFrom[1]) )
            => ~poolCall.ok /\ pool = poolCall.before

---------------------------------------------------------------------------
(* Properties of the registry, step by step (checked under Spec) *)

\* a failure was counted for the provider at i in this step
FailureStep(i) ==
    states'[i].consecutive_failures = states[i].consecutive_failures + 1

\* C32: a report_failure or a failed probe on a provider whose counter is
\* already 3 or more writes the current instant to tripped_at, and the
\* provider is out of healthy_providers() from that instant; so a provider
\* with four or more failures in a row, the last less than 5 minutes ago,
\* is never in healthy_providers(), however long ago it tripped first.
C32_FailureRestartsCooldown ==
    /\ [][\A i \in ProviderIdx :
             (FailureStep(i) /\ states[i].consecutive_failures >= CIRCUIT_BREAKER_THRESHOLD)
                 => /\ states'[i].tripped_at = Some(now')
                    /\ ~is_available(states'[i], now')]_vars
    /\ [](\A i \in ProviderIdx :
             ( /\ failsSince[i] > CIRCUIT_BREAKER_THRESHOLD
               /\ lastFailAt[i] # None
               /\ now - Unwrap(lastFailAt[i]) < CIRCUIT_BREAKER_COOLDOWN )
                 => ~InHealthy(i))

\* tripped at 0, failed again half a cool-down later; a full cool-down after
\* the first trip the provider is still excluded
C32_Witness ==
    /\ lastCall.op = "report_failure"
    /\ lastCall.url = states[1].provider.url
    /\ lastCall.before >= CIRCUIT_BREAKER_THRESHOLD
    /\ lastCall.was = Some(0)
    /\ states[1].tripped_at = Some(TickSecs)
    /\ now = CIRCUIT_BREAKER_COOLDOWN
    /\ ~InHealthy(1)

\* C33: a provider that is available again because its cool-down elapsed,
\* no success having been reported, is HEALTHY: one further failure does
\* not exclude it.
C33_CooledDownIsHealthy ==
    [][\A i \in ProviderIdx :
          ( /\ states[i].tripped_at # None
            /\ is_available(states[i], now)
            /\ FailureStep(i) )
              => is_available(states'[i], now')]_vars

ReportOps == {"report_success", "report_failure"}

\* C39: report_success(url) and report_failure(url) change the state of the
\* provider whose url is the argument and of no other; a url that is the
\* url of no provider changes nothing.
C39_OnlyTheNamedProvider ==
    [][lastCall'.op \in ReportOps =>
          \A i \in ProviderIdx :
              states[i].provider.url # lastCall'.url => states'[i] = states[i]]_vars

\* a failure reported for the second provider while the first is tripped
\* with three failures: the first is as it was, the second counts one
C39_Witness ==
    /\ lastCall.op = "report_failure"
    /\ lastCall.url = states[2].provider.url
    /\ lastCall.before = 0
    /\ states[2].consecutive_failures = 1
    /\ states[1].consecutive_failures = 3
    /\ states[1].tripped_at # None

---------------------------------------------------------------------------
(* Properties of the failover loop, step by step (checked under SpecFailover) *)

\* a request was sent in this step and it failed
FailedAttemptStep ==
    /\ Len(contacted') = Len(contacted) + 1
    /\ lastResp' # None
    /\ ~simulate_transaction_single(Unwrap(lastResp')).ok

\* C38: every failed attempt on a provider adds one to the failure counter
\* of that provider, whatever the error, -32602 included; a provider whose
\* third failure in a row was a request rejected for bad parameters is out
\* of healthy_providers().
C38_EveryFailureCounts ==
    /\ [][FailedAttemptStep =>
             \A i \in ProviderIdx :
                 states[i].provider.url = contacted'[Len(contacted')]
                     => states'[i].consecutive_failures = states[i].consecutive_failures + 1]_vars
    /\ []( ( /\ lastResp # None
             /\ RpcErrorCode(Unwrap(lastResp), -32602)
             /\ contacted # <<>> )
               => /\ lastCall.op = "report_failure"
                  /\ lastCall.url = contacted[Len(contacted)]
                  /\ \A i \in ProviderIdx :
                         ( /\ states[i].provider.url = lastCall.url
                           /\ lastCall.before + 1 >= CIRCUIT_BREAKER_THRESHOLD )
                             => /\ states[i].tripped_at # None
                                /\ now - Unwrap(states[i].tripped_at) < CIRCUIT_BREAKER_COOLDOWN
                                       => ~InHealthy(i) )

\* the first provider rejected a request for bad parameters for the third
\* time in a row: only it was contacted, and it is out of healthy_providers()
C38_Witness ==
    /\ pc = "done"
    /\ lastResp # None
    /\ RpcErrorCode(Unwrap(lastResp), -32602)
    /\ contacted = <<states[1].provider.url>>
    /\ lastCall.before = 2
    /\ lastCall.was = None
    /\ states[1].consecutive_failures = 3
    /\ states[1].tripped_at = Some(now)
    /\ ~InHealthy(1)
    /\ InHealthy(2)

---------------------------------------------------------------------------
(* Properties of the registry under concurrent callers (checked under SpecRace) *)

Counter == states[1].consecutive_failures

Tripped == states[1].tripped_at # None

\* C34: whatever the interleaving of concurrent report_success,
\* report_failure and health-check updates on one provider, in every state
\* with no call in flight tripped_at is set only if consecutive_failures is
\* 3 or more; a success racing with the third failure never leaves the
\* provider tripped with a counter of 0.
C34_TrippedOnlyAtThreshold ==
    Quiescent => (Tripped => Counter >= CIRCUIT_BREAKER_THRESHOLD)

\* C35: k concurrent report_failure calls on one provider, no success among
\* them, raise consecutive_failures by exactly k, and once all of them have
\* completed the provider is tripped exactly if the count is 3 or more.
C35_NoLostIncrement ==
    (Quiescent /\ batch.successes = 0 /\ batch.failures >= 1) =>
        /\ Counter = batch.counter + batch.failures
        /\ Tripped <=> Counter >= CIRCUIT_BREAKER_THRESHOLD

\* the first half of C35 alone: no increment is lost
NoLostIncrement ==
    (Quiescent /\ batch.successes = 0) => Counter = batch.counter + batch.failures

---------------------------------------------------------------------------
(* Properties of concurrent analyze requests (checked under SpecConcurrent) *)

SlotKey(c) == key_of(Unwrap(slots[c].payload))

\* the request of c missed, the engine returned Ok, and c has answered
MissedAndAnswered(c) ==
    /\ slots[c].pc = "responded"
    /\ slots[c].missed
    /\ slots[c].sim # None
    /\ Unwrap(slots[c].sim).ok

\* the requests of a and b have the same fingerprint, and each missed
\* before the other had stored its result
Raced(a, b) ==
    /\ a # b
    /\ MissedAndAnswered(a)
    /\ MissedAndAnswered(b)
    /\ SlotKey(a) = SlotKey(b)

\* C36: two analyze requests of one fingerprint that both missed and both
\* invoked the engine are both answered MISS, each with its own result;
\* misses has grown by 2; the entry under the fingerprint is the result
\* of the request whose cache.set ran last.
C36_LastWriterWins ==
    \A a, b \in Connections :
        Raced(a, b) =>
            /\ slots[a].response = Some(Answer("MISS", Unwrap(slots[a].sim)))
            /\ slots[b].response = Some(Answer("MISS", Unwrap(slots[b].sim)))
            /\ misses >= Min({slots[a].misses_before, slots[b].misses_before}) + 2
            /\ \E c \in Connections :
                  /\ slots[c].last
                  /\ MissedAndAnswered(c)
                  /\ SlotKey(c) = SlotKey(a)
                  /\ \A d \in Connections \ {c} :
                        (slots[d].payload # None /\ SlotKey(d) = SlotKey(a)) => ~slots[d].last
                  /\ SlotKey(a) \in DOMAIN inner
                  /\ inner[SlotKey(a)].value = Unwrap(slots[c].sim)
                  /\ lastSet[SlotKey(a)] = inner[SlotKey(a)]

\* both requests missed at time 0, the engine gave them different results,
\* the first stored last: the cache holds its result, not the other's
C36_Witness ==
    /\ Raced(1, 2)
    /\ slots[1].misses_before = 0
    /\ slots[2].misses_before = 1
    /\ misses = 2
    /\ hits = 0
    /\ slots[1].sim # slots[2].sim
    /\ slots[1].last
    /\ inner[SlotKey(1)].value = Unwrap(slots[1].sim)

---------------------------------------------------------------------------
(* Properties of failed and cancelled requests (checked under SpecCancel) *)

\* the request in hand has ended without a result: the engine returned Err
\* and the handler answered 500, or the handler was dropped
EndedWithoutResult ==
    \/ hpc = "cancelled"
    \/ hpc = "responded" /\ response = Some(Internal)

\* this step is the cache.get of a request with the fingerprint of the last one
SameRequestAgain ==
    /\ hits' + misses' = hits + misses + 1
    /\ payload # None
    /\ payload' # None
    /\ key_of(Unwrap(payload')) = key_of(Unwrap(payload))

\* C37: a request whose simulation fails or that is cancelled stores nothing:
\* the step that ends it leaves the entries as they were, no set has run
\* since its own get, the fingerprint has no entry, and the next request
\* with the same fingerprint misses and goes to the engine.
C37_FailureStoresNothing ==
    /\ [][(hpc = "simulating" /\ EndedWithoutResult') =>
              (inner' = inner /\ others' = others /\ lastSet' = lastSet)]_vars
    /\ [][(EndedWithoutResult /\ SameRequestAgain) => hpc' = "miss"]_vars
    /\ [](EndedWithoutResult =>
              /\ lastOp.op = "get"
              /\ lastOp.key = Some(Fingerprint)
              /\ lastOp.returned = None
              /\ inner_get(inner, Fingerprint, now) = None)

\* a request is dropped while the engine runs, after an earlier one has
\* missed as well: the cache has never held anything
C37_Witness ==
    /\ hpc = "cancelled"
    /\ misses = 2
    /\ hits = 0
    /\ inner = EmptyMap
    /\ states[1].consecutive_failures >= 1

\* a request is answered 500 after every provider has failed
AnsweredInternal ==
    /\ hpc = "responded"
    /\ response = Some(Internal)
    /\ misses = 2
    /\ inner = EmptyMap

=============================================================================
